---------------------------- MODULE Spec2Model ----------------------------
(***************************************************************************)
(* OpenImageIO Rust bindings: the TypeDesc type descriptor.                *)
(*                                                                         *)
(* Two layers are modelled.  The wrapper layer (src/rust/src/typedesc.rs)  *)
(* holds the public enums BaseType / Aggregate / VecSemantics, the struct  *)
(* TypeDesc and its methods; every method converts its arguments to the    *)
(* boundary types of oiio-sys, calls one bridge function and converts the  *)
(* answer back.  The bridge layer (src/rust/oiio-sys/src/typedesc.rs)      *)
(* declares the boundary enums with their numeric codes, the repr(C)       *)
(* struct with 8-bit code fields, and the bridge functions typedesc_*.     *)
(* The bodies of the bridge functions are C++ and are written here from    *)
(* the design document of the descriptor.                                  *)
(*                                                                         *)
(* Text is a sequence of one-character strings, so that parsing and        *)
(* printing really consume and produce characters.                         *)
(***************************************************************************)
EXTENDS Integers, Sequences, FiniteSets

VARIABLES
    td,        \* the descriptor the caller holds
    prev,      \* its value before the last in-place call
    op,        \* the last call: [name, arg, ret]
    kept,      \* the descriptor as the last constructor, unarray or
               \* successful set_from_string left it
    out,       \* the text the last to_string returned, NoText otherwise
    platform,  \* what the build fixes: [ptr, lastbase] byte sizes
    ma, mb, mc,\* the operands of the merge calls
    mres,      \* the last merge call: [name, value]
    src_buf,   \* the bytes of the source slice given to convert_type
    dst_buf,   \* the bytes of the destination slice; what a call stores
               \* past its end is appended
    strings    \* the texts the pointers of String values refer to

vars == <<td, prev, op, kept, out, platform, ma, mb, mc, mres, src_buf, dst_buf, strings>>

(***************************************************************************)
(* Bounds of the model.                                                    *)
(***************************************************************************)
\* sized array suffixes "[1]" .. "[MaxArrayLen]" are parsed and printed
MaxArrayLen == 3
\* one array length of two decimal digits, for the digit conversions
TwoDigitLen == 12

(***************************************************************************)
(* The wrapper enums, in declaration order.                                *)
(***************************************************************************)
BaseTypeVariants ==
    << "Unknown", "None", "UInt8", "Int8", "UInt16", "Int16", "UInt32",
       "Int32", "UInt64", "Int64", "Half", "Float", "Double", "String",
       "Ptr", "UStringHash", "LastBase" >>

AggregateVariants == << "Scalar", "Vec2", "Vec3", "Vec4", "Matrix33", "Matrix44" >>

VecSemanticsVariants ==
    << "NoSemantics", "Color", "Point", "Vector", "Normal", "Timecode",
       "Keycode", "Rational", "Box" >>

Range(seq) == { seq[i] : i \in 1..Len(seq) }

BaseType == Range(BaseTypeVariants)
Aggregate == Range(AggregateVariants)
VecSemantics == Range(VecSemanticsVariants)

\* the value a wrapper conversion cannot produce: its unreachable!() arm
PANIC == "unreachable!()"

(***************************************************************************)
(* The boundary enums: #[repr(u32)] codes.                                 *)
(***************************************************************************)
ffi_BaseType ==
    [ UNKNOWN |-> 0, NONE |-> 1, UINT8 |-> 2, INT8 |-> 3, UINT16 |-> 4,
      INT16 |-> 5, UINT32 |-> 6, INT32 |-> 7, UINT64 |-> 8, INT64 |-> 9,
      HALF |-> 10, FLOAT |-> 11, DOUBLE |-> 12, STRING |-> 13, PTR |-> 14,
      USTRINGHASH |-> 15, LASTBASE |-> 16 ]

ffi_Aggregate ==
    [ SCALAR |-> 1, VEC2 |-> 2, VEC3 |-> 3, VEC4 |-> 4, MATRIX33 |-> 9,
      MATRIX44 |-> 16 ]

ffi_VecSemantics ==
    [ NOSEMANTICS |-> 0, COLOR |-> 1, POINT |-> 2, VECTOR |-> 3, NORMAL |-> 4,
      TIMECODE |-> 5, KEYCODE |-> 6, RATIONAL |-> 7, BOX |-> 8 ]

(***************************************************************************)
(* Wrapper enum -> boundary enum (the repr of the boundary value).         *)
(***************************************************************************)
sys_BaseType_from(value) ==
    CASE value = "Unknown"     -> ffi_BaseType.UNKNOWN
      [] value = "None"        -> ffi_BaseType.NONE
      [] value = "UInt8"       -> ffi_BaseType.UINT8
      [] value = "Int8"        -> ffi_BaseType.INT8
      [] value = "UInt16"      -> ffi_BaseType.UINT16
      [] value = "Int16"       -> ffi_BaseType.INT16
      [] value = "UInt32"      -> ffi_BaseType.UINT32
      [] value = "Int32"       -> ffi_BaseType.INT32
      [] value = "UInt64"      -> ffi_BaseType.UINT64
      [] value = "Int64"       -> ffi_BaseType.INT64
      [] value = "Half"        -> ffi_BaseType.HALF
      [] value = "Float"       -> ffi_BaseType.FLOAT
      [] value = "Double"      -> ffi_BaseType.DOUBLE
      [] value = "String"      -> ffi_BaseType.STRING
      [] value = "Ptr"         -> ffi_BaseType.PTR
      [] value = "UStringHash" -> ffi_BaseType.USTRINGHASH
      [] value = "LastBase"    -> ffi_BaseType.LASTBASE

sys_Aggregate_from(value) ==
    CASE value = "Scalar"   -> ffi_Aggregate.SCALAR
      [] value = "Vec2"     -> ffi_Aggregate.VEC2
      [] value = "Vec3"     -> ffi_Aggregate.VEC3
      [] value = "Vec4"     -> ffi_Aggregate.VEC4
      [] value = "Matrix33" -> ffi_Aggregate.MATRIX33
      [] value = "Matrix44" -> ffi_Aggregate.MATRIX44

sys_VecSemantics_from(value) ==
    CASE value = "NoSemantics" -> ffi_VecSemantics.NOSEMANTICS
      [] value = "Color"       -> ffi_VecSemantics.COLOR
      [] value = "Point"       -> ffi_VecSemantics.POINT
      [] value = "Vector"      -> ffi_VecSemantics.VECTOR
      [] value = "Normal"      -> ffi_VecSemantics.NORMAL
      [] value = "Timecode"    -> ffi_VecSemantics.TIMECODE
      [] value = "Keycode"     -> ffi_VecSemantics.KEYCODE
      [] value = "Rational"    -> ffi_VecSemantics.RATIONAL
      [] value = "Box"         -> ffi_VecSemantics.BOX

(***************************************************************************)
(* Boundary enum -> wrapper enum; any other code reaches unreachable!().   *)
(***************************************************************************)
\* BaseType_from with the UINT32 and INT32 arms exchanged
BaseType_from_swapped_int(value) ==
    CASE value = ffi_BaseType.UNKNOWN     -> "Unknown"
      [] value = ffi_BaseType.NONE        -> "None"
      [] value = ffi_BaseType.UINT8       -> "UInt8"
      [] value = ffi_BaseType.INT8        -> "Int8"
      [] value = ffi_BaseType.UINT16      -> "UInt16"
      [] value = ffi_BaseType.INT16       -> "Int16"
      [] value = ffi_BaseType.UINT32      -> "Int32"
      [] value = ffi_BaseType.INT32       -> "UInt32"
      [] value = ffi_BaseType.UINT64      -> "UInt64"
      [] value = ffi_BaseType.INT64       -> "Int64"
      [] value = ffi_BaseType.HALF        -> "Half"
      [] value = ffi_BaseType.FLOAT       -> "Float"
      [] value = ffi_BaseType.DOUBLE      -> "Double"
      [] value = ffi_BaseType.STRING      -> "String"
      [] value = ffi_BaseType.PTR         -> "Ptr"
      [] value = ffi_BaseType.USTRINGHASH -> "UStringHash"
      [] value = ffi_BaseType.LASTBASE    -> "LastBase"
      [] OTHER                            -> PANIC

BaseType_from(value) ==
    CASE value = ffi_BaseType.UNKNOWN     -> "Unknown"
      [] value = ffi_BaseType.NONE        -> "None"
      [] value = ffi_BaseType.UINT8       -> "UInt8"
      [] value = ffi_BaseType.INT8        -> "Int8"
      [] value = ffi_BaseType.UINT16      -> "UInt16"
      [] value = ffi_BaseType.INT16       -> "Int16"
      [] value = ffi_BaseType.UINT32      -> "UInt32"
      [] value = ffi_BaseType.INT32       -> "Int32"
      [] value = ffi_BaseType.UINT64      -> "UInt64"
      [] value = ffi_BaseType.INT64       -> "Int64"
      [] value = ffi_BaseType.HALF        -> "Half"
      [] value = ffi_BaseType.FLOAT       -> "Float"
      [] value = ffi_BaseType.DOUBLE      -> "Double"
      [] value = ffi_BaseType.STRING      -> "String"
      [] value = ffi_BaseType.PTR         -> "Ptr"
      [] value = ffi_BaseType.USTRINGHASH -> "UStringHash"
      [] value = ffi_BaseType.LASTBASE    -> "LastBase"
      [] OTHER                            -> PANIC

Aggregate_from(value) ==
    CASE value = ffi_Aggregate.SCALAR   -> "Scalar"
      [] value = ffi_Aggregate.VEC2     -> "Vec2"
      [] value = ffi_Aggregate.VEC3     -> "Vec3"
      [] value = ffi_Aggregate.VEC4     -> "Vec4"
      [] value = ffi_Aggregate.MATRIX33 -> "Matrix33"
      [] value = ffi_Aggregate.MATRIX44 -> "Matrix44"
      [] OTHER                          -> PANIC

VecSemantics_from(value) ==
    CASE value = ffi_VecSemantics.NOSEMANTICS -> "NoSemantics"
      [] value = ffi_VecSemantics.COLOR       -> "Color"
      [] value = ffi_VecSemantics.POINT       -> "Point"
      [] value = ffi_VecSemantics.VECTOR      -> "Vector"
      [] value = ffi_VecSemantics.NORMAL      -> "Normal"
      [] value = ffi_VecSemantics.TIMECODE    -> "Timecode"
      [] value = ffi_VecSemantics.KEYCODE     -> "Keycode"
      [] value = ffi_VecSemantics.RATIONAL    -> "Rational"
      [] value = ffi_VecSemantics.BOX         -> "Box"
      [] OTHER                                -> PANIC

(***************************************************************************)
(* The boundary struct: three 8-bit codes and a 32-bit signed length.      *)
(* typedesc_new stores its arguments verbatim, each code cut to 8 bits.    *)
(***************************************************************************)
sys_TypeDesc ==
    [ basetype : 0..255, aggregate : 0..255, vecsemantics : 0..255,
      arraylen : Int ]

typedesc_new(btype, agg, semantics, arraylen) ==
    [ basetype     |-> btype % 256,
      aggregate    |-> agg % 256,
      vecsemantics |-> semantics % 256,
      arraylen     |-> arraylen ]

typedesc_from_basetype_arraylen(btype, arraylen) ==
    typedesc_new(btype, ffi_Aggregate.SCALAR, ffi_VecSemantics.NOSEMANTICS, arraylen)

typedesc_from_basetype_aggregate_arraylen(btype, agg, arraylen) ==
    typedesc_new(btype, agg, ffi_VecSemantics.NOSEMANTICS, arraylen)

(***************************************************************************)
(* Wrapper struct <-> boundary struct.                                     *)
(***************************************************************************)
\* sys_TypeDesc_from that forgets the array length
sys_TypeDesc_from_no_arraylen(value) ==
    typedesc_new(sys_BaseType_from(value.basetype),
                 sys_Aggregate_from(value.aggregate),
                 sys_VecSemantics_from(value.vecsemantics),
                 0)

sys_TypeDesc_from(value) ==
    typedesc_new(sys_BaseType_from(value.basetype),
                 sys_Aggregate_from(value.aggregate),
                 sys_VecSemantics_from(value.vecsemantics),
                 value.arraylen)

\* TypeDesc_from that forgets the array length
TypeDesc_from_no_arraylen(value) ==
    [ basetype     |-> BaseType_from(value.basetype),
      aggregate    |-> Aggregate_from(value.aggregate),
      vecsemantics |-> VecSemantics_from(value.vecsemantics),
      arraylen     |-> 0 ]

TypeDesc_from(value) ==
    [ basetype     |-> BaseType_from(value.basetype),
      aggregate    |-> Aggregate_from(value.aggregate),
      vecsemantics |-> VecSemantics_from(value.vecsemantics),
      arraylen     |-> value.arraylen ]

(***************************************************************************)
(* Wrapper constructors.                                                   *)
(***************************************************************************)
new(btype, agg, semantics, arraylen) ==
    TypeDesc_from(typedesc_new(sys_BaseType_from(btype), sys_Aggregate_from(agg),
                               sys_VecSemantics_from(semantics), arraylen))

from_basetype_arraylen(btype, arraylen) ==
    TypeDesc_from(typedesc_from_basetype_arraylen(sys_BaseType_from(btype), arraylen))

from_basetype_aggregate_arraylen(btype, agg, arraylen) ==
    TypeDesc_from(typedesc_from_basetype_aggregate_arraylen(
                      sys_BaseType_from(btype), sys_Aggregate_from(agg), arraylen))


(***************************************************************************)
(* Text.                                                                   *)
(***************************************************************************)
Digits == << "0", "1", "2", "3", "4", "5", "6", "7", "8", "9" >>

Letters ==
    { "a", "b", "c", "d", "e", "f", "g", "h", "i", "j", "k", "l", "m", "n",
      "o", "p", "q", "r", "s", "t", "u", "v", "w", "x", "y", "z",
      "A", "B", "C", "D", "E", "F", "G", "H", "I", "J", "K", "L", "M", "N",
      "O", "P", "Q", "R", "S", "T", "U", "V", "W", "X", "Y", "Z" }

\* the characters a type-name token is made of
IdentChars == Letters \cup Range(Digits) \cup { "_" }

IsPrefix(k, s) == Len(k) <= Len(s) /\ SubSeq(s, 1, Len(k)) = k

DigitValue(c) == (CHOOSE i \in 1..10 : Digits[i] = c) - 1

\* decimal text -> integer, most significant digit first
RECURSIVE DigitsToInt(_)
DigitsToInt(ds) ==
    IF ds = << >> THEN 0
    ELSE 10 * DigitsToInt(SubSeq(ds, 1, Len(ds) - 1)) + DigitValue(ds[Len(ds)])

\* integer >= 0 -> decimal text without leading zeros
RECURSIVE IntToDigits(_)
IntToDigits(n) ==
    IF n < 10 THEN << Digits[n + 1] >>
    ELSE IntToDigits(n \div 10) \o << Digits[(n % 10) + 1] >>

\* how many leading characters of s are decimal digits
RECURSIVE LeadingDigits(_)
LeadingDigits(s) ==
    IF s # << >> /\ s[1] \in Range(Digits) THEN 1 + LeadingDigits(Tail(s)) ELSE 0

(***************************************************************************)
(* The grammar table of the bridge: one name per base kind below LASTBASE, *)
(* and the semantic aliases, each with the descriptor it stands for.       *)
(***************************************************************************)
basetype_name ==
    << <<"u","n","k","n","o","w","n">>,
       <<"v","o","i","d">>,
       <<"u","i","n","t","8">>,
       <<"i","n","t","8">>,
       <<"u","i","n","t","1","6">>,
       <<"i","n","t","1","6">>,
       <<"u","i","n","t">>,
       <<"i","n","t">>,
       <<"u","i","n","t","6","4">>,
       <<"i","n","t","6","4">>,
       <<"h","a","l","f">>,
       <<"f","l","o","a","t">>,
       <<"d","o","u","b","l","e">>,
       <<"s","t","r","i","n","g">>,
       <<"p","o","i","n","t","e","r">>,
       <<"u","s","t","r","i","n","g","h","a","s","h">> >>

alias_table ==
    << [ name |-> <<"c","o","l","o","r">>,
         desc |-> typedesc_new(ffi_BaseType.FLOAT, ffi_Aggregate.VEC3, ffi_VecSemantics.COLOR, 0) ],
       [ name |-> <<"p","o","i","n","t">>,
         desc |-> typedesc_new(ffi_BaseType.FLOAT, ffi_Aggregate.VEC3, ffi_VecSemantics.POINT, 0) ],
       [ name |-> <<"v","e","c","t","o","r">>,
         desc |-> typedesc_new(ffi_BaseType.FLOAT, ffi_Aggregate.VEC3, ffi_VecSemantics.VECTOR, 0) ],
       [ name |-> <<"n","o","r","m","a","l">>,
         desc |-> typedesc_new(ffi_BaseType.FLOAT, ffi_Aggregate.VEC3, ffi_VecSemantics.NORMAL, 0) ],
       [ name |-> <<"m","a","t","r","i","x">>,
         desc |-> typedesc_new(ffi_BaseType.FLOAT, ffi_Aggregate.MATRIX44, ffi_VecSemantics.NOSEMANTICS, 0) ],
       [ name |-> <<"m","a","t","r","i","x","3","3">>,
         desc |-> typedesc_new(ffi_BaseType.FLOAT, ffi_Aggregate.MATRIX33, ffi_VecSemantics.NOSEMANTICS, 0) ] >>

keyword_table ==
    [ i \in 1..Len(basetype_name) |->
        [ name |-> basetype_name[i],
          desc |-> typedesc_from_basetype_arraylen(i - 1, 0) ] ]
    \o alias_table

(***************************************************************************)
(* Parsing.  A keyword matches when the text starts with it and the token  *)
(* ends there; of the keywords that match, the longest is taken.  Then an  *)
(* array suffix: "[" digits "]" or "[]".                                   *)
(***************************************************************************)
keyword_matches(k, s) ==
    /\ IsPrefix(k, s)
    /\ (Len(s) = Len(k) \/ s[Len(k) + 1] \notin IdentChars)

matching_keywords(s) ==
    { i \in 1..Len(keyword_table) : keyword_matches(keyword_table[i].name, s) }

longest_match(s) ==
    LET m == matching_keywords(s)
    IN  CHOOSE i \in m :
            \A j \in m : Len(keyword_table[j].name) <= Len(keyword_table[i].name)

\* [arraylen, ok, used]: used characters of rest; ok is FALSE for a suffix
\* that opens with "[" and is no "[" digits "]" or "[]"
parse_array_suffix(rest) ==
    IF rest = << >> \/ rest[1] # "["
    THEN [ arraylen |-> 0, ok |-> TRUE, used |-> 0 ]
    ELSE LET nd == LeadingDigits(Tail(rest))
         IN  IF Len(rest) >= nd + 2 /\ rest[nd + 2] = "]"
             THEN [ arraylen |-> IF nd = 0 THEN -1
                                 ELSE DigitsToInt(SubSeq(rest, 2, nd + 1)),
                    ok       |-> TRUE,
                    used     |-> nd + 2 ]
             ELSE [ arraylen |-> 0, ok |-> FALSE, used |-> 0 ]

\* the descriptor of "no valid type": base UNKNOWN
unknown_typedesc == typedesc_from_basetype_arraylen(ffi_BaseType.UNKNOWN, 0)

\* (descriptor, consumed length); (unknown_typedesc, 0) when nothing matches
parse_typestring(s) ==
    LET m == matching_keywords(s)
    IN  IF m = {}
        THEN [ typedesc |-> unknown_typedesc, len |-> 0 ]
        ELSE LET kw  == keyword_table[longest_match(s)]
                 suf == parse_array_suffix(SubSeq(s, Len(kw.name) + 1, Len(s)))
             IN  IF ~suf.ok
                 THEN [ typedesc |-> unknown_typedesc, len |-> 0 ]
                 ELSE [ typedesc |-> [ kw.desc EXCEPT !.arraylen = suf.arraylen ],
                        len      |-> Len(kw.name) + suf.used ]

typedesc_from_string(typestring) == parse_typestring(typestring).typedesc

\* in place: [typedesc, ret]; the descriptor is left alone when ret = 0
typedesc_fromstring(typedesc, typestring) ==
    LET r == parse_typestring(typestring)
    IN  IF r.len = 0
        THEN [ typedesc |-> typedesc, ret |-> 0 ]
        ELSE [ typedesc |-> r.typedesc, ret |-> r.len ]

(***************************************************************************)
(* Printing: the alias when (base, aggregate, hint) is an alias's          *)
(* descriptor, the base name otherwise; then the array suffix.             *)
(***************************************************************************)
alias_of(typedesc) ==
    { i \in 1..Len(alias_table) :
        alias_table[i].desc = [ typedesc EXCEPT !.arraylen = 0 ] }

array_suffix(arraylen) ==
    IF arraylen > 0 THEN << "[" >> \o IntToDigits(arraylen) \o << "]" >>
    ELSE IF arraylen < 0 THEN << "[", "]" >>
    ELSE << >>

typedesc_as_str(typedesc) ==
    ( IF alias_of(typedesc) # {}
      THEN alias_table[CHOOSE i \in alias_of(typedesc) : TRUE].name
      ELSE basetype_name[typedesc.basetype + 1] )
    \o array_suffix(typedesc.arraylen)

(***************************************************************************)
(* Layout queries of the bridge.  The byte size of a base kind comes from  *)
(* a table with one row per kind below LASTBASE; String and Ptr have the   *)
(* pointer width of the build, and LASTBASE has no row: what the build     *)
(* returns for it is carried in the platform record.  The counts are usize *)
(* values: as wide as a pointer of the build.  A count can need more than  *)
(* 31 bits, so it is kept as two 16-bit limbs << high, low >>; the byte    *)
(* sizes of one base value and of one element fit a plain number.          *)
(***************************************************************************)
Limb == 2^16

usize_from(n) == << n \div Limb, n % Limb >>

usize_lt(a, b) == a[1] < b[1] \/ (a[1] = b[1] /\ a[2] < b[2])

\* the product of a count and a factor that fits one limb, cut to the width
\* of usize
usize_mul(a, factor, plat) ==
    LET low  == a[2] * factor
        high == a[1] * factor + low \div Limb
    IN  << IF plat.ptr = 4 THEN high % Limb ELSE high, low % Limb >>

\* the bridge functions return a plain usize and take no error path: a call
\* that does not return a count ends the process
LAYOUT_ERROR == << "layout query on an unsized array" >>

typedesc_basesize(typedesc, plat) ==
    LET b == typedesc.basetype
    IN  CASE b \in { ffi_BaseType.UNKNOWN, ffi_BaseType.NONE } -> 0
          [] b \in { ffi_BaseType.UINT8, ffi_BaseType.INT8 } -> 1
          [] b \in { ffi_BaseType.UINT16, ffi_BaseType.INT16, ffi_BaseType.HALF } -> 2
          [] b \in { ffi_BaseType.UINT32, ffi_BaseType.INT32, ffi_BaseType.FLOAT } -> 4
          [] b \in { ffi_BaseType.UINT64, ffi_BaseType.INT64, ffi_BaseType.DOUBLE,
                     ffi_BaseType.USTRINGHASH } -> 8
          [] b \in { ffi_BaseType.STRING, ffi_BaseType.PTR } -> plat.ptr
          [] OTHER -> plat.lastbase

typedesc_elementsize(typedesc, plat) ==
    typedesc.aggregate * typedesc_basesize(typedesc, plat)

typedesc_is_unsized_array(typedesc) == typedesc.arraylen < 0

typedesc_is_sized_array(typedesc) == typedesc.arraylen > 0

\* "Invalid to call this for arrays of undetermined size": what such a call
\* gives is fixed by the build and carried in the platform record
typedesc_numelements(typedesc, plat) ==
    IF typedesc.arraylen < 0 THEN plat.unsized
    ELSE IF typedesc.arraylen >= 1 THEN usize_from(typedesc.arraylen)
    ELSE usize_from(1)

typedesc_basevalues(typedesc, plat) ==
    IF typedesc_numelements(typedesc, plat) = LAYOUT_ERROR THEN LAYOUT_ERROR
    ELSE usize_mul(typedesc_numelements(typedesc, plat), typedesc.aggregate, plat)

typedesc_size(typedesc, plat) ==
    IF typedesc_numelements(typedesc, plat) = LAYOUT_ERROR THEN LAYOUT_ERROR
    ELSE usize_mul(typedesc_numelements(typedesc, plat),
                   typedesc_elementsize(typedesc, plat), plat)

typedesc_elementtype(typedesc) == [ typedesc EXCEPT !.arraylen = 0 ]

typedesc_scalartype(typedesc) ==
    typedesc_new(typedesc.basetype, ffi_Aggregate.SCALAR,
                 ffi_VecSemantics.NOSEMANTICS, 0)

typedesc_unarray(typedesc) == [ typedesc EXCEPT !.arraylen = 0 ]

\* "True if it's a signed type that allows for negative values": the signed
\* integers and the floating-point kinds
typedesc_is_signed(typedesc) ==
    typedesc.basetype \in { ffi_BaseType.INT8, ffi_BaseType.INT16,
                            ffi_BaseType.INT32, ffi_BaseType.INT64,
                            ffi_BaseType.HALF, ffi_BaseType.FLOAT,
                            ffi_BaseType.DOUBLE }

(***************************************************************************)
(* Comparisons of the bridge.                                              *)
(***************************************************************************)
typedesc_eq(typedesc, t) ==
    /\ typedesc.basetype = t.basetype
    /\ typedesc.aggregate = t.aggregate
    /\ typedesc.vecsemantics = t.vecsemantics
    /\ typedesc.arraylen = t.arraylen

typedesc_ne(typedesc, t) == ~typedesc_eq(typedesc, t)

typedesc_is_array(typedesc) == typedesc.arraylen # 0

typedesc_eq_basetype(t, b) ==
    /\ t.basetype = b
    /\ t.aggregate = ffi_Aggregate.SCALAR
    /\ ~typedesc_is_array(t)

basetype_eq_typedesc(b, t) ==
    /\ b = t.basetype
    /\ t.aggregate = ffi_Aggregate.SCALAR
    /\ ~typedesc_is_array(t)

typedesc_ne_basetype(t, b) == ~typedesc_eq_basetype(t, b)

basetype_ne_typedesc(b, t) == ~basetype_eq_typedesc(b, t)

typedesc_equivalent(typedesc, b) ==
    /\ typedesc.basetype = b.basetype
    /\ typedesc.aggregate = b.aggregate
    /\ typedesc.arraylen = b.arraylen

\* base code, then aggregate code, then array length, then hint code
typedesc_lt(typedesc, x) ==
    IF typedesc.basetype # x.basetype THEN typedesc.basetype < x.basetype
    ELSE IF typedesc.aggregate # x.aggregate THEN typedesc.aggregate < x.aggregate
    ELSE IF typedesc.arraylen # x.arraylen THEN typedesc.arraylen < x.arraylen
    ELSE IF typedesc.vecsemantics # x.vecsemantics
    THEN typedesc.vecsemantics < x.vecsemantics
    ELSE FALSE

(***************************************************************************)
(* Promotion of base kinds in the bridge.                                  *)
(***************************************************************************)
typedesc_basetype_merge(a, b, plat) ==
    IF a.basetype = b.basetype THEN a.basetype
    ELSE IF a.basetype = ffi_BaseType.UNKNOWN THEN b.basetype
    ELSE IF b.basetype = ffi_BaseType.UNKNOWN THEN a.basetype
    ELSE LET swap  == typedesc_basesize(a, plat) < typedesc_basesize(b, plat)
             p     == IF swap THEN b.basetype ELSE a.basetype
             o     == IF swap THEN a.basetype ELSE b.basetype
         IN  IF p \in { ffi_BaseType.DOUBLE, ffi_BaseType.FLOAT } THEN p
             ELSE IF p = ffi_BaseType.UINT32
                     /\ o \in { ffi_BaseType.UINT16, ffi_BaseType.UINT8 } THEN p
             ELSE IF p = ffi_BaseType.INT32
                     /\ o \in { ffi_BaseType.INT16, ffi_BaseType.INT8,
                                ffi_BaseType.UINT16, ffi_BaseType.UINT8 } THEN p
             ELSE IF p \in { ffi_BaseType.UINT16, ffi_BaseType.HALF }
                     /\ o = ffi_BaseType.UINT8 THEN p
             ELSE IF p \in { ffi_BaseType.INT16, ffi_BaseType.HALF }
                     /\ o \in { ffi_BaseType.INT8, ffi_BaseType.UINT8 } THEN p
             ELSE ffi_BaseType.FLOAT

typedesc_basetype_merge_3(a, b, c, plat) ==
    typedesc_basetype_merge(
        typedesc_from_basetype_arraylen(typedesc_basetype_merge(a, b, plat), 0),
        c, plat)

(***************************************************************************)
(* Conversion of values in the bridge.  A buffer is a sequence of bytes    *)
(* and a value is stored least significant byte first.  A String value is  *)
(* a pointer as wide as the pointers of the build: the index of a text in  *)
(* the heap.  A 32-bit quantity is kept as two 16-bit limbs.  The policy   *)
(* is the documented one: equivalent types are copied; a String            *)
(* destination always succeeds; an Int32 or UInt32 destination takes the   *)
(* other integer kinds as a cast and a String only when it is an integer   *)
(* literal; a Float destination takes the integers and the other           *)
(* floating-point kinds as a cast and a String only when it is a float     *)
(* literal; everything else fails.  What the documentation leaves open is  *)
(* a choice: the value of a cast that is only "best effort" or of a        *)
(* literal out of range is the parameter any (four bytes), and a failed    *)
(* call either leaves the destination alone or leaves the values converted *)
(* before the failure in it.                                               *)
(***************************************************************************)
bytes_to_limbs(bytes) ==
    << bytes[4] * 256 + bytes[3], bytes[2] * 256 + bytes[1] >>

\* two's complement negation of 32 bits
limbs_neg(m) ==
    << (Limb - m[1] - (IF m[2] = 0 THEN 0 ELSE 1)) % Limb, (Limb - m[2]) % Limb >>

\* the bytes buf[at .. at + len - 1]; a byte past the end of the buffer reads
\* as zero
Bytes(buf, at, len) ==
    [ i \in 1..len |-> IF at + i - 1 <= Len(buf) THEN buf[at + i - 1] ELSE 0 ]

\* buf with bytes stored from index at on; a store past the end of the buffer
\* lands in what follows it
Store(buf, at, bytes) ==
    LET last == IF at + Len(bytes) - 1 > Len(buf) THEN at + Len(bytes) - 1
                ELSE Len(buf)
    IN  [ i \in 1..last |->
            IF i >= at /\ i < at + Len(bytes) THEN bytes[i - at + 1]
            ELSE IF i <= Len(buf) THEN buf[i]
            ELSE 0 ]

\* the integer kinds of at most 32 bits
SmallIntegers ==
    { ffi_BaseType.UINT8, ffi_BaseType.INT8, ffi_BaseType.UINT16,
      ffi_BaseType.INT16, ffi_BaseType.UINT32, ffi_BaseType.INT32 }

\* is the integer stored in value below zero
is_negative(basetype, value) ==
    /\ basetype \in { ffi_BaseType.INT8, ffi_BaseType.INT16, ffi_BaseType.INT32,
                       ffi_BaseType.INT64 }
    /\ value[Len(value)] >= 128

\* an integer of any width as 32 bits: the low four bytes, or the value
\* extended by its sign
int_to_int32(basetype, value) ==
    [ i \in 1..4 |-> IF i <= Len(value) THEN value[i]
                     ELSE IF is_negative(basetype, value) THEN 255
                     ELSE 0 ]

\* the magnitude of an integer of at most 32 bits
magnitude(basetype, value) ==
    IF is_negative(basetype, value)
    THEN limbs_neg(bytes_to_limbs(int_to_int32(basetype, value)))
    ELSE bytes_to_limbs(int_to_int32(basetype, value))

\* f32_from_integer that drops the bits that do not fit instead of rounding
f32_from_integer_truncated(negative, m) ==
    IF m = << 0, 0 >> THEN << 0, 0, 0, 0 >>
    ELSE LET e        == IF m[1] > 0
                         THEN 16 + (CHOOSE b \in 0..15 : 2^b <= m[1] /\ m[1] < 2^(b + 1))
                         ELSE CHOOSE b \in 0..15 : 2^b <= m[2] /\ m[2] < 2^(b + 1)
             s        == e - 23
             sig      == IF s <= 0 THEN (m[1] * Limb + m[2]) * 2^(0 - s)
                         ELSE m[1] * 2^(16 - s) + m[2] \div 2^s
             exponent == e + 127
             fraction == sig - 2^23
         IN  << fraction % 256,
                (fraction \div 256) % 256,
                fraction \div 65536 + 128 * (exponent % 2),
                exponent \div 2 + (IF negative THEN 128 ELSE 0) >>

\* the IEEE-754 single nearest to (-1)^negative * m, ties to the even
\* significand: sign bit, exponent biased by 127, 23 fraction bits; e is the
\* place of the highest set bit of m
f32_from_integer(negative, m) ==
    IF m = << 0, 0 >> THEN << 0, 0, 0, 0 >>
    ELSE LET e        == IF m[1] > 0
                         THEN 16 + (CHOOSE b \in 0..15 : 2^b <= m[1] /\ m[1] < 2^(b + 1))
                         ELSE CHOOSE b \in 0..15 : 2^b <= m[2] /\ m[2] < 2^(b + 1)
             s        == e - 23
             q        == IF s <= 0 THEN (m[1] * Limb + m[2]) * 2^(0 - s)
                         ELSE m[1] * 2^(16 - s) + m[2] \div 2^s
             r        == IF s <= 0 THEN 0 ELSE m[2] % 2^s
             half     == IF s <= 0 THEN 1 ELSE 2^(s - 1)
             up       == r > half \/ (r = half /\ q % 2 = 1)
             sig      == IF up THEN q + 1 ELSE q
             exponent == IF sig = 2^24 THEN e + 128 ELSE e + 127
             fraction == IF sig = 2^24 THEN 0 ELSE sig - 2^23
         IN  << fraction % 256,
                (fraction \div 256) % 256,
                fraction \div 65536 + 128 * (exponent % 2),
                exponent \div 2 + (IF negative THEN 128 ELSE 0) >>

\* a text without its sign
unsigned_part(s) ==
    IF s # << >> /\ s[1] \in { "+", "-" } THEN Tail(s) ELSE s

\* an optional sign and one or more decimal digits, and nothing else
is_int_literal(s) ==
    /\ unsigned_part(s) # << >>
    /\ LeadingDigits(unsigned_part(s)) = Len(unsigned_part(s))

\* an optional sign, decimal digits with an optional fraction, an optional
\* exponent, and nothing else
is_float_literal(s) ==
    LET body     == unsigned_part(s)
        whole    == LeadingDigits(body)
        rest     == SubSeq(body, whole + 1, Len(body))
        dot      == rest # << >> /\ rest[1] = "."
        fraction == IF dot THEN LeadingDigits(Tail(rest)) ELSE 0
        exponent == IF dot THEN SubSeq(rest, fraction + 2, Len(rest)) ELSE rest
    IN  /\ whole + fraction > 0
        /\ \/ exponent = << >>
           \/ exponent[1] \in { "e", "E" } /\ is_int_literal(Tail(exponent))

\* the decimal text of a limb pair: the digits of its tenth, which fits a
\* plain number, and its last digit
limbs_to_digits(m) ==
    LET half == m[1] * (Limb \div 2) + m[2] \div 2
        last == (half % 5) * 2 + (m[2] % 2)
    IN  IF half < 5 THEN << Digits[last + 1] >>
        ELSE IntToDigits(half \div 5) \o << Digits[last + 1] >>

\* a String value: the pointer to the text at an index of the heap
pointer_to(index, plat) == [ i \in 1..plat.ptr |-> IF i = 1 THEN index ELSE 0 ]

\* one value as text: an integer of at most 32 bits in decimal, a String as
\* the text it points to; the text of any other kind is not modelled and is
\* the name of the kind
value_to_text(basetype, value, heap) ==
    CASE basetype \in SmallIntegers ->
            (IF is_negative(basetype, value) THEN << "-" >> ELSE << >>)
            \o limbs_to_digits(magnitude(basetype, value))
      [] basetype = ffi_BaseType.STRING -> heap[value[1]]
      [] basetype < ffi_BaseType.LASTBASE -> basetype_name[basetype + 1]
      [] OTHER -> << >>

\* one value as a 32-bit integer of kind to: << converted, bytes >>; "other
\* integer types will do their best", a String converts when it is an
\* integer literal, and one of more than nine digits has no fixed value
value_to_int32(basetype, value, to, heap, any) ==
    LET text == heap[value[1]]
        m    == usize_from(DigitsToInt(unsigned_part(text)))
        word == IF text[1] = "-" THEN limbs_neg(m) ELSE m
    IN  CASE basetype \in (SmallIntegers
                           \cup { ffi_BaseType.UINT64, ffi_BaseType.INT64 }) \ { to } ->
                << TRUE, int_to_int32(basetype, value) >>
          [] basetype = ffi_BaseType.STRING ->
                IF ~is_int_literal(text) THEN << FALSE, << >> >>
                ELSE IF Len(unsigned_part(text)) > 9 THEN << TRUE, any >>
                ELSE << TRUE, << word[2] % 256, word[2] \div 256,
                                 word[1] % 256, word[1] \div 256 >> >>
          [] OTHER -> << FALSE, << >> >>

\* one value as a single-precision float: << converted, bytes >>;
\* "integers and other float types will do their best conversion", a String
\* converts when it is a float literal; only the value of an integer of at
\* most 32 bits and of a literal of at most nine digits is worked out
value_to_float(basetype, value, heap, any) ==
    LET text == heap[value[1]]
    IN  CASE basetype \in SmallIntegers ->
                << TRUE, f32_from_integer(is_negative(basetype, value),
                                          magnitude(basetype, value)) >>
          [] basetype \in { ffi_BaseType.UINT64, ffi_BaseType.INT64,
                            ffi_BaseType.HALF, ffi_BaseType.DOUBLE } ->
                << TRUE, any >>
          [] basetype = ffi_BaseType.STRING ->
                IF ~is_float_literal(text) THEN << FALSE, << >> >>
                ELSE IF ~is_int_literal(text) \/ Len(unsigned_part(text)) > 9
                THEN << TRUE, any >>
                ELSE << TRUE, f32_from_integer(
                                  text[1] = "-",
                                  usize_from(DigitsToInt(unsigned_part(text)))) >>
          [] OTHER -> << FALSE, << >> >>

\* one value converted to the base kind of the destination:
\* << converted, result >>, the result being a text for a String destination
\* and the bytes of the value for any other
convert_value(basetype, value, to, heap, any) ==
    CASE to = ffi_BaseType.STRING ->
            << TRUE, value_to_text(basetype, value, heap) >>
      [] to \in { ffi_BaseType.INT32, ffi_BaseType.UINT32 } ->
            value_to_int32(basetype, value, to, heap, any)
      [] to = ffi_BaseType.FLOAT -> value_to_float(basetype, value, heap, any)
      [] OTHER -> << FALSE, << >> >>

\* how many components of an element are converted
components(srctype, dsttype) ==
    IF srctype.aggregate < dsttype.aggregate THEN srctype.aggregate
    ELSE dsttype.aggregate

\* the values of the n elements, component by component, each converted
converted_values(srctype, src, dsttype, n, heap, plat, any) ==
    [ k \in 1..(n * components(srctype, dsttype)) |->
        convert_value(srctype.basetype,
                      Bytes(src,
                            (((k - 1) \div components(srctype, dsttype)) * srctype.aggregate
                             + ((k - 1) % components(srctype, dsttype)))
                            * typedesc_basesize(srctype, plat) + 1,
                            typedesc_basesize(srctype, plat)),
                      dsttype.basetype, heap, any) ]

\* the heap holds one copy of each text: the texts among the values that are
\* new to it are added in the order they come
heap_with(heap, values) ==
    LET fresh == { k \in 1..Len(values) :
                     /\ \A i \in 1..Len(heap) : heap[i] # values[k][2]
                     /\ \A j \in 1..(k - 1) : values[j][2] # values[k][2] }
    IN  heap \o [ i \in 1..Cardinality(fresh) |->
                    values[CHOOSE k \in fresh :
                             Cardinality({ j \in fresh : j < k }) = i - 1][2] ]

\* dst with the first upto of the values stored, each at the place of its
\* component; a String is stored as the pointer to its text in the heap
store_values(dsttype, dst, count, values, upto, heap, plat) ==
    LET to   == typedesc_basesize(dsttype, plat)
        span == dsttype.aggregate * to
        last == IF upto = 0 THEN 0
                ELSE (((upto - 1) \div count) * dsttype.aggregate
                      + ((upto - 1) % count) + 1) * to
    IN  [ i \in 1..(IF last > Len(dst) THEN last ELSE Len(dst)) |->
            IF /\ ((i - 1) % span) \div to < count
               /\ ((i - 1) \div span) * count + ((i - 1) % span) \div to < upto
            THEN IF dsttype.basetype = ffi_BaseType.STRING
                 THEN pointer_to(
                          CHOOSE c \in 1..Len(heap) :
                              heap[c] = values[((i - 1) \div span) * count
                                               + ((i - 1) % span) \div to + 1][2],
                          plat)[((i - 1) % to) + 1]
                 ELSE values[((i - 1) \div span) * count
                             + ((i - 1) % span) \div to + 1][2][((i - 1) % to) + 1]
            ELSE IF i <= Len(dst) THEN dst[i]
            ELSE 0 ]

\* the outcomes of a conversion value by value: all values stored, or a
\* failure with the destination either as it was or with the values before
\* the first that did not convert
stored_outcomes(dsttype, dst, count, values, heap, plat, from, to) ==
    LET upto == IF \A k \in 1..Len(values) : values[k][1] THEN Len(values)
                ELSE (CHOOSE k \in 1..Len(values) :
                        ~values[k][1] /\ \A j \in 1..(k - 1) : values[j][1]) - 1
    IN  IF upto = Len(values)
        THEN { << TRUE, store_values(dsttype, dst, count, values, upto, heap, plat),
                  heap, from, to >> }
        ELSE { << FALSE, dst, heap, from, to >>,
               << FALSE, store_values(dsttype, dst, count, values, upto, heap, plat),
                  heap, from, to >> }

\* the call without its check of the two lengths: the set of its outcomes
\* << converted, dst, heap, bytes of src gone over, bytes of dst gone over >>
convert_elements(srctype, src, dsttype, dst, n, heap, plat, any) ==
    LET from == n * typedesc_elementsize(srctype, plat)
        to   == n * typedesc_elementsize(dsttype, plat)
    IN  IF typedesc_equivalent(srctype, dsttype)
        THEN { << TRUE, Store(dst, 1, Bytes(src, 1, from)), heap, from, to >> }
        ELSE IF dsttype.basetype \notin { ffi_BaseType.STRING, ffi_BaseType.INT32,
                                         ffi_BaseType.UINT32, ffi_BaseType.FLOAT }
        THEN { << FALSE, dst, heap, 0, 0 >> }
        ELSE UNION { UNION { stored_outcomes(dsttype, dst,
                                             components(srctype, dsttype),
                                             values, texts, plat, from, to) :
                             texts \in { IF dsttype.basetype = ffi_BaseType.STRING
                                         THEN heap_with(heap, values)
                                         ELSE heap } } :
                     values \in { converted_values(srctype, src, dsttype, n,
                                                   heap, plat, any) } }

\* "implementations must bounds-check and report an error": a buffer shorter
\* than n elements of its type fails the call, nothing is read and nothing is
\* written
typedesc_convert_type(srctype, src, dsttype, dst, n, heap, plat, any) ==
    IF \/ Len(src) < n * typedesc_elementsize(srctype, plat)
       \/ Len(dst) < n * typedesc_elementsize(dsttype, plat)
    THEN { << FALSE, dst, heap, 0, 0 >> }
    ELSE convert_elements(srctype, src, dsttype, dst, n, heap, plat, any)

(***************************************************************************)
(* Wrapper methods: convert, call the bridge, convert back.                *)
(***************************************************************************)
TypeDesc_from_str(value) == TypeDesc_from(typedesc_from_string(value))

to_string(self) == typedesc_as_str(sys_TypeDesc_from(self))

numelements(self, plat) == typedesc_numelements(sys_TypeDesc_from(self), plat)

basevalues(self, plat) == typedesc_basevalues(sys_TypeDesc_from(self), plat)

size(self, plat) == typedesc_size(sys_TypeDesc_from(self), plat)

\* elementtype that strips the aggregate and the hint as well
elementtype_as_scalartype(self) ==
    TypeDesc_from(typedesc_scalartype(sys_TypeDesc_from(self)))

elementtype(self) == TypeDesc_from(typedesc_elementtype(sys_TypeDesc_from(self)))

\* elementsize that forgets the aggregate
elementsize_as_basesize(self, plat) ==
    typedesc_basesize(sys_TypeDesc_from(self), plat)

elementsize(self, plat) == typedesc_elementsize(sys_TypeDesc_from(self), plat)

\* scalartype that hands back a zeroed aggregate code
scalartype_zero_aggregate(self) ==
    TypeDesc_from(typedesc_new(sys_BaseType_from(self.basetype), 0, 0, 0))

scalartype(self) == TypeDesc_from(typedesc_scalartype(sys_TypeDesc_from(self)))

basesize(self, plat) == typedesc_basesize(sys_TypeDesc_from(self), plat)

\* is_signed that knows the signed integers only
is_signed_integers_only(self) ==
    self.basetype \in { "Int8", "Int16", "Int32", "Int64" }

is_signed(self) == typedesc_is_signed(sys_TypeDesc_from(self))

\* set_from_string that never writes the parsed descriptor back
set_from_string_no_writeback(self, typestring) ==
    LET typedesc == sys_TypeDesc_from(self)
        r        == typedesc_fromstring(typedesc, typestring)
    IN  [ self |-> self, result |-> r.ret ]

\* set_from_string that returns the length of the whole text
set_from_string_returns_len(self, typestring) ==
    LET typedesc == sys_TypeDesc_from(self)
        r        == typedesc_fromstring(typedesc, typestring)
    IN  [ self |-> TypeDesc_from(r.typedesc), result |-> Len(typestring) ]

\* set_from_string that parses into a fresh descriptor, as From<&str> does,
\* instead of into a copy of the receiver
set_from_string_via_from(self, typestring) ==
    LET r == typedesc_fromstring(unknown_typedesc, typestring)
    IN  [ self |-> TypeDesc_from(r.typedesc), result |-> r.ret ]

\* set_from_string that writes back the base type and the array length only
set_from_string_basetype_only(self, typestring) ==
    LET typedesc == sys_TypeDesc_from(self)
        r        == typedesc_fromstring(typedesc, typestring)
        parsed   == TypeDesc_from(r.typedesc)
    IN  [ self   |-> [ self EXCEPT !.basetype = parsed.basetype,
                                   !.arraylen = parsed.arraylen ],
          result |-> r.ret ]

\* [self, result]: the receiver afterwards and the returned length
set_from_string(self, typestring) ==
    LET typedesc == sys_TypeDesc_from(self)
        r        == typedesc_fromstring(typedesc, typestring)
    IN  [ self |-> TypeDesc_from(r.typedesc), result |-> r.ret ]

unarray(self) == TypeDesc_from(typedesc_unarray(sys_TypeDesc_from(self)))

\* basetype_merge that answers with the base kind of its first operand
basetype_merge_first_operand(a, b, plat) == a.basetype

\* basetype_merge with its operands exchanged
basetype_merge_swapped(a, b, plat) ==
    BaseType_from(typedesc_basetype_merge(sys_TypeDesc_from(b),
                                          sys_TypeDesc_from(a), plat))

basetype_merge(a, b, plat) ==
    BaseType_from(typedesc_basetype_merge(sys_TypeDesc_from(a),
                                          sys_TypeDesc_from(b), plat))

\* basetype_merge_3 that leaves the third operand out
basetype_merge_3_ignores_c(a, b, c, plat) ==
    BaseType_from(typedesc_basetype_merge(sys_TypeDesc_from(a),
                                          sys_TypeDesc_from(b), plat))

basetype_merge_3(a, b, c, plat) ==
    BaseType_from(typedesc_basetype_merge_3(sys_TypeDesc_from(a),
                                            sys_TypeDesc_from(b),
                                            sys_TypeDesc_from(c), plat))

\* convert_type that takes the source as scalars
convert_type_of_scalars(srctype, src, dsttype, dst, n, heap, plat, any) ==
    typedesc_convert_type(typedesc_scalartype(sys_TypeDesc_from(srctype)), src,
                          sys_TypeDesc_from(dsttype), dst, n, heap, plat, any)

\* convert_type that copies the bytes whatever the two types are
convert_type_as_copy(srctype, src, dsttype, dst, n, heap, plat, any) ==
    { << TRUE,
         Store(dst, 1, Bytes(src, 1, n * typedesc_elementsize(sys_TypeDesc_from(dsttype), plat))),
         heap, 0, 0 >> }

\* convert_type that converts equivalent types only
convert_type_equivalent_only(srctype, src, dsttype, dst, n, heap, plat, any) ==
    IF typedesc_equivalent(sys_TypeDesc_from(srctype), sys_TypeDesc_from(dsttype))
    THEN typedesc_convert_type(sys_TypeDesc_from(srctype), src,
                               sys_TypeDesc_from(dsttype), dst, n, heap, plat, any)
    ELSE { << FALSE, dst, heap, 0, 0 >> }

\* convert_type that gives up on every String source
convert_type_no_parsing(srctype, src, dsttype, dst, n, heap, plat, any) ==
    IF srctype.basetype = "String" /\ dsttype.basetype # "String"
    THEN { << FALSE, dst, heap, 0, 0 >> }
    ELSE typedesc_convert_type(sys_TypeDesc_from(srctype), src,
                               sys_TypeDesc_from(dsttype), dst, n, heap, plat, any)

\* the slices go to the bridge as they are; heap, plat and any stand for the
\* memory and the build the call runs on
convert_type(srctype, src, dsttype, dst, n, heap, plat, any) ==
    typedesc_convert_type(sys_TypeDesc_from(srctype), src,
                          sys_TypeDesc_from(dsttype), dst, n, heap, plat, any)

(***************************************************************************)
(* Wrapper comparisons.  The enums compare by their boundary codes.        *)
(***************************************************************************)
Ordering(less, equal) ==
    IF equal THEN "Equal" ELSE IF less THEN "Less" ELSE "Greater"

BaseType_cmp(self, other) ==
    Ordering(sys_BaseType_from(self) < sys_BaseType_from(other),
             sys_BaseType_from(self) = sys_BaseType_from(other))

Aggregate_cmp(self, other) ==
    Ordering(sys_Aggregate_from(self) < sys_Aggregate_from(other),
             sys_Aggregate_from(self) = sys_Aggregate_from(other))

VecSemantics_cmp(self, other) ==
    Ordering(sys_VecSemantics_from(self) < sys_VecSemantics_from(other),
             sys_VecSemantics_from(self) = sys_VecSemantics_from(other))

\* eq that asks the bridge for equivalence
eq_via_equivalent(self, other) ==
    typedesc_equivalent(sys_TypeDesc_from(self), sys_TypeDesc_from(other))

eq(self, other) ==
    typedesc_eq(sys_TypeDesc_from(self), sys_TypeDesc_from(other))

ne(self, other) ==
    typedesc_ne(sys_TypeDesc_from(self), sys_TypeDesc_from(other))

\* TypeDesc == BaseType that looks at the base kind only
TypeDesc_eq_BaseType_base_only(self, other) ==
    sys_TypeDesc_from(self).basetype = sys_BaseType_from(other)

TypeDesc_eq_BaseType(self, other) ==
    typedesc_eq_basetype(sys_TypeDesc_from(self), sys_BaseType_from(other))

TypeDesc_ne_BaseType(self, other) ==
    typedesc_ne_basetype(sys_TypeDesc_from(self), sys_BaseType_from(other))

BaseType_eq_TypeDesc(self, other) ==
    basetype_eq_typedesc(sys_BaseType_from(self), sys_TypeDesc_from(other))

BaseType_ne_TypeDesc(self, other) ==
    basetype_ne_typedesc(sys_BaseType_from(self), sys_TypeDesc_from(other))

\* cmp that hands its operands to the bridge in the other order
cmp_swapped(self, other) ==
    IF eq(self, other) THEN "Equal"
    ELSE IF typedesc_lt(sys_TypeDesc_from(other), sys_TypeDesc_from(self))
    THEN "Less"
    ELSE "Greater"

\* cmp without the test for equality
cmp_no_equal(self, other) ==
    IF typedesc_lt(sys_TypeDesc_from(self), sys_TypeDesc_from(other))
    THEN "Less"
    ELSE "Greater"

cmp(self, other) ==
    IF eq(self, other) THEN "Equal"
    ELSE IF typedesc_lt(sys_TypeDesc_from(self), sys_TypeDesc_from(other))
    THEN "Less"
    ELSE "Greater"

is_array(self) == typedesc_is_array(sys_TypeDesc_from(self))

\* a < b, as PartialOrd derives it from cmp
lt(self, other) == cmp(self, other) = "Less"

\* equivalent that asks the bridge for equality
equivalent_via_eq(self, b) ==
    typedesc_eq(sys_TypeDesc_from(self), sys_TypeDesc_from(b))

\* equivalent that also pairs an unsized array with every sized one
equivalent_sized_unsized(self, b) ==
    \/ typedesc_equivalent(sys_TypeDesc_from(self), sys_TypeDesc_from(b))
    \/ /\ typedesc_equivalent(sys_TypeDesc_from([ self EXCEPT !.arraylen = 0 ]),
                               sys_TypeDesc_from([ b EXCEPT !.arraylen = 0 ]))
       /\ (self.arraylen < 0 /\ b.arraylen > 0) \/ (self.arraylen > 0 /\ b.arraylen < 0)

equivalent(self, b) ==
    typedesc_equivalent(sys_TypeDesc_from(self), sys_TypeDesc_from(b))

(***************************************************************************)
(* The tables the crate's own tests check against.                         *)
(***************************************************************************)
NONE == << >>

\* the keyword the tests pair with a base kind; no keyword for LastBase
base_type_str(value) ==
    CASE
         value = "Unknown" -> <<"u","n","k","n","o","w","n">>
      [] value = "None" -> <<"v","o","i","d">>
      [] value = "UInt8" -> <<"u","i","n","t","8">>
      [] value = "Int8" -> <<"i","n","t","8">>
      [] value = "UInt16" -> <<"u","i","n","t","1","6">>
      [] value = "Int16" -> <<"i","n","t","1","6">>
      [] value = "UInt32" -> <<"u","i","n","t">>
      [] value = "Int32" -> <<"i","n","t">>
      [] value = "UInt64" -> <<"u","i","n","t","6","4">>
      [] value = "Int64" -> <<"i","n","t","6","4">>
      [] value = "Half" -> <<"h","a","l","f">>
      [] value = "Float" -> <<"f","l","o","a","t">>
      [] value = "Double" -> <<"d","o","u","b","l","e">>
      [] value = "String" -> <<"s","t","r","i","n","g">>
      [] value = "Ptr" -> <<"p","o","i","n","t","e","r">>
      [] value = "UStringHash" -> <<"u","s","t","r","i","n","g","h","a","s","h">>
      [] OTHER -> NONE

\* the (descriptor, keyword) pairs the parse and print tests draw from
from_string_strategy ==
    { << from_basetype_arraylen(base_type, 0), base_type_str(base_type) >> :
        base_type \in { b \in BaseType : base_type_str(b) # NONE } }

u32_from_BaseType(value) == sys_BaseType_from(value)

\* u32 from Aggregate that numbers the variants 0, 1, 2, ...
u32_from_Aggregate_ordinal(value) ==
    CASE value = "Scalar"   -> 0
      [] value = "Vec2"     -> 1
      [] value = "Vec3"     -> 2
      [] value = "Vec4"     -> 3
      [] value = "Matrix33" -> 4
      [] value = "Matrix44" -> 5

u32_from_Aggregate(value) == sys_Aggregate_from(value)

u32_from_VecSemantics(value) == sys_VecSemantics_from(value)

\* the byte size test_typedesc_basesize_success expects; size_of of a
\* pointer is the pointer width of the build
test_basesize_expected(btype, plat) ==
    CASE btype = "Unknown" -> 0
      [] btype = "None" -> 0
      [] btype = "UInt8" -> 1
      [] btype = "Int8" -> 1
      [] btype = "UInt16" -> 2
      [] btype = "Int16" -> 2
      [] btype = "UInt32" -> 4
      [] btype = "Int32" -> 4
      [] btype = "UInt64" -> 8
      [] btype = "Int64" -> 8
      [] btype = "Half" -> 4 \div 2
      [] btype = "Float" -> 4
      [] btype = "Double" -> 8
      [] btype = "String" -> plat.ptr
      [] btype = "Ptr" -> plat.ptr
      [] btype = "UStringHash" -> 8
      [] btype = "LastBase" -> PANIC

\* the byte size test_typedesc_elementsize_success expects
test_elementsize_expected(typedesc, plat) ==
    u32_from_Aggregate(typedesc.aggregate) * basesize(typedesc, plat)

\* the descriptors test_typedesc_elementtype_success and
\* test_typedesc_scalartype_success expect
test_elementtype_expected(btype, agg, semantics) ==
    [ basetype |-> btype, aggregate |-> agg, vecsemantics |-> semantics,
      arraylen |-> 0 ]

test_scalartype_expected(btype) ==
    [ basetype |-> btype, aggregate |-> "Scalar", vecsemantics |-> "NoSemantics",
      arraylen |-> 0 ]

\* f32::from_ne_bytes(value_out) == value_in as f32, on the bytes of value_in
test_convert_type_expected(value_in) ==
    f32_from_integer(value_in[4] >= 128,
                     IF value_in[4] >= 128 THEN limbs_neg(bytes_to_limbs(value_in))
                     ELSE bytes_to_limbs(value_in))

\* the base kind test_typedesc_basetype_merge_success expects
test_basetype_merge_expected(btype_a, btype_b, plat) ==
    IF btype_a = btype_b THEN btype_a
    ELSE IF btype_a = "Unknown" THEN btype_b
    ELSE IF btype_b = "Unknown" THEN btype_a
    ELSE LET size_a == size(new(btype_a, "Scalar", "NoSemantics", 0), plat)
             size_b == size(new(btype_b, "Scalar", "NoSemantics", 0), plat)
             a == IF usize_lt(size_a, size_b) THEN btype_b ELSE btype_a
             b == IF usize_lt(size_a, size_b) THEN btype_a ELSE btype_b
         IN  IF a = "Double" \/ a = "Float" THEN a
             ELSE IF a = "UInt32" /\ (b = "UInt16" \/ b = "UInt8") THEN a
             ELSE IF a = "Int32" /\ (b = "Int16" \/ b = "Int8"
                                      \/ b = "UInt16" \/ b = "UInt8") THEN a
             ELSE IF (a = "UInt16" \/ a = "Half") /\ b = "UInt8" THEN a
             ELSE IF (a = "Int16" \/ a = "Half")
                     /\ (b = "Int8" \/ b = "UInt8") THEN a
             ELSE "Float"

\* what test_typedesc_lt_success expects of a < b
test_lt_expected(a, b) ==
    IF a.basetype # b.basetype
    THEN BaseType_cmp(a.basetype, b.basetype) = "Less"
    ELSE IF a.aggregate # b.aggregate
    THEN Aggregate_cmp(a.aggregate, b.aggregate) = "Less"
    ELSE IF a.arraylen # b.arraylen THEN a.arraylen < b.arraylen
    ELSE IF a.vecsemantics # b.vecsemantics
    THEN VecSemantics_cmp(a.vecsemantics, b.vecsemantics) = "Less"
    ELSE FALSE

\* what test_typedesc_eq_success and test_typedesc_ne_success expect of ==
test_eq_expected(a, b) ==
    /\ a.basetype = b.basetype
    /\ a.aggregate = b.aggregate
    /\ a.vecsemantics = b.vecsemantics
    /\ a.arraylen = b.arraylen

\* what test_typedesc_eq_basetype_success expects of a == btype_b
test_eq_basetype_expected(a, btype_b) ==
    /\ a.basetype = btype_b
    /\ a.aggregate = "Scalar"
    /\ ~is_array(a)

(***************************************************************************)
(* Inputs of the model.                                                    *)
(***************************************************************************)
\* array lengths the constructors are called with
ArrayLens == { -1, 0, MaxArrayLen, TwoDigitLen }

\* lengths written in sized suffixes
SuffixLens == (1..MaxArrayLen) \cup { TwoDigitLen }

\* (aggregate, hint, array length) of the descriptors the constructors build:
\* every aggregate, every hint, not an array / unsized / sized
Shapes ==
    { << "Scalar", "NoSemantics", 0 >>,
      << "Vec2", "Rational", MaxArrayLen >>,
      << "Vec3", "Color", -1 >>,
      << "Vec3", "Point", 0 >>,
      << "Vec3", "Vector", TwoDigitLen >>,
      << "Vec4", "Normal", -1 >>,
      << "Matrix33", "Timecode", MaxArrayLen >>,
      << "Matrix44", "Keycode", 0 >>,
      << "Vec2", "Box", MaxArrayLen >> }

Suffixes ==
    { << >>, << "[", "]" >> }
    \cup { << "[" >> \o IntToDigits(n) \o << "]" >> : n \in SuffixLens }

TypeNames == { keyword_table[i].name : i \in 1..Len(keyword_table) }

\* texts that are no type name followed by a well-formed suffix
OtherTexts ==
    { << >>,
      <<"a","b","c">>,
      <<"i","n">>,
      <<"I","n","t">>,
      <<"u","i","n","t","1">>,
      <<"f","l","o","a","t","x">>,
      <<"f","l","o","a","t","[">>,
      <<"i","n","t","[","x","]">>,
      <<"f","l","o","a","t","[","0","3","]">>,
      <<" ","i","n","t">>,
      <<"i","n","t"," ","x">>,
      <<"m","a","t","r","i","x","4","4","x">> }

TypeStrings == { k \o s : k \in TypeNames, s \in Suffixes } \cup OtherTexts

\* the builds: 32- and 64-bit pointers; for LASTBASE a size below, among
\* and above the sizes of the table; a layout query on an unsized array ends
\* the process or returns a count
UnsizedOutcomes == { LAYOUT_ERROR, usize_from(0), usize_from(1) }

Platforms == [ ptr : { 4, 8 }, lastbase : { 0, 4, 16 }, unsized : UnsizedOutcomes ]

\* the operands of the merge calls: every base kind, as a plain scalar and
\* as an unsized array of aggregates with a hint
MergeOperands ==
    { new(b, "Scalar", "NoSemantics", 0) : b \in BaseType }
    \cup { new(b, "Vec3", "Color", -1) : b \in BaseType }

\* second and third operands: one shape each
MergeOperandsB == { new(b, "Matrix44", "Box", MaxArrayLen) : b \in BaseType }
MergeOperandsC == { new(b, "Vec2", "NoSemantics", 0) : b \in BaseType }

NoText == << "<", "n", "o", "n", "e", ">" >>
NoMerge == [ value |-> "Unknown", name |-> "none" ]
Default == new("Unknown", "Scalar", "NoSemantics", 0)
Call(name, arg, ret) == [ name |-> name, ret |-> ret, arg |-> arg ]

(***************************************************************************)
(* The descriptor as a caller uses it: built once by a constructor or from *)
(* text, then changed by the in-place calls set_from_string and unarray.   *)
(***************************************************************************)
\* the texts of the call sequences
SeqStrings ==
    { << >>,
      <<"i","n","t">>,
      <<"u","i","n","t","1","6">>,
      <<"f","l","o","a","t","[","2","]">>,
      <<"p","o","i","n","t","[","]">>,
      <<"u","n","k","n","o","w","n">>,
      <<"m","a","t","r","i","x","3","3">>,
      <<"a","b","c">>,
      <<"u","i","n","t","1">>,
      <<"f","l","o","a","t","[">> }

Constructed(value, name, arg) ==
    /\ td = value
    /\ prev = value
    /\ kept = value
    /\ op = Call(name, arg, 0)

NoBuffers ==
    /\ src_buf = << >>
    /\ dst_buf = << >>
    /\ strings = << >>

Idle ==
    /\ NoBuffers
    /\ out = NoText
    /\ platform = [ ptr |-> 8, lastbase |-> 0, unsized |-> LAYOUT_ERROR ]
    /\ ma = Default /\ mb = Default /\ mc = Default
    /\ mres = NoMerge

Init ==
    /\ \/ \E btype \in BaseType, shape \in Shapes :
            Constructed(new(btype, shape[1], shape[2], shape[3]), "new", << >>)
       \/ \E btype \in BaseType, arraylen \in ArrayLens :
            Constructed(from_basetype_arraylen(btype, arraylen),
                        "from_basetype_arraylen", << >>)
       \/ \E btype \in BaseType, shape \in Shapes :
            Constructed(from_basetype_aggregate_arraylen(btype, shape[1], shape[3]),
                        "from_basetype_aggregate_arraylen", << >>)
       \/ \E value \in SeqStrings :
            Constructed(TypeDesc_from_str(value), "from", value)
    /\ Idle

SetFromString ==
    \E typestring \in SeqStrings :
        \E r \in { set_from_string(td, typestring) } :
            /\ td' = r.self
            /\ prev' = td
            /\ kept' = IF r.result # 0 THEN r.self ELSE kept
            /\ op' = Call("set_from_string", typestring, r.result)
            /\ UNCHANGED <<out, platform, ma, mb, mc, mres, src_buf, dst_buf, strings>>

Unarray ==
    /\ td' = unarray(td)
    /\ prev' = td
    /\ kept' = td'
    /\ op' = Call("unarray", << >>, 0)
    /\ UNCHANGED <<out, platform, ma, mb, mc, mres, src_buf, dst_buf, strings>>

\* the caller goes on with the descriptor elementtype returns
TakeElementtype ==
    /\ td' = elementtype(td)
    /\ prev' = td
    /\ kept' = td'
    /\ op' = Call("elementtype", << >>, 0)
    /\ UNCHANGED <<out, platform, ma, mb, mc, mres, src_buf, dst_buf, strings>>

\* the caller goes on with the descriptor scalartype returns
TakeScalartype ==
    /\ td' = scalartype(td)
    /\ prev' = td
    /\ kept' = td'
    /\ op' = Call("scalartype", << >>, 0)
    /\ UNCHANGED <<out, platform, ma, mb, mc, mres, src_buf, dst_buf, strings>>

Next ==
    \/ SetFromString
    \/ Unarray
    \/ TakeElementtype
    \/ TakeScalartype

Spec == Init /\ [][Next]_vars

(***************************************************************************)
(* Parsing and printing as functions of one text: a descriptor is built by *)
(* new and a text is chosen; then the text is parsed, either into a fresh  *)
(* descriptor (From<&str>) or in place (set_from_string), and the          *)
(* descriptor is printed.                                                  *)
(***************************************************************************)
InitParse ==
    /\ \E btype \in BaseType, shape \in Shapes :
            td = new(btype, shape[1], shape[2], shape[3])
    /\ prev = td
    /\ kept = td
    /\ \E typestring \in TypeStrings : op = Call("start", typestring, 0)
    /\ Idle

FromStr ==
    /\ op.name = "start"
    /\ td' = TypeDesc_from_str(op.arg)
    /\ prev' = td'
    /\ kept' = td'
    /\ op' = Call("from", op.arg, 0)
    /\ out' = NoText
    /\ UNCHANGED <<platform, ma, mb, mc, mres, src_buf, dst_buf, strings>>

ParseInPlace ==
    /\ op.name = "start"
    /\ \E r \in { set_from_string(td, op.arg) } :
           /\ td' = r.self
           /\ prev' = td
           /\ kept' = IF r.result # 0 THEN r.self ELSE kept
           /\ op' = Call("set_from_string", op.arg, r.result)
    /\ out' = NoText
    /\ UNCHANGED <<platform, ma, mb, mc, mres, src_buf, dst_buf, strings>>

\* the name table has no row for LastBase; out is the text of the current
\* descriptor until the next parse
ToString ==
    /\ td.basetype # "LastBase"
    /\ out = NoText
    /\ out' = to_string(td)
    /\ UNCHANGED <<td, prev, kept, op, platform, ma, mb, mc, mres, src_buf, dst_buf, strings>>

NextParse ==
    \/ FromStr
    \/ ParseInPlace
    \/ ToString

SpecParse == InitParse /\ [][NextParse]_vars

(***************************************************************************)
(* The promotion calls as pure functions of their operands.                *)
(***************************************************************************)
InitMerge ==
    /\ NoBuffers
    /\ ma \in MergeOperands /\ mb \in MergeOperandsB /\ mc \in MergeOperandsC
    /\ platform \in Platforms
    /\ mres = NoMerge
    /\ Constructed(Default, "new", << >>)
    /\ out = NoText

BasetypeMerge ==
    /\ mres' = [ value |-> basetype_merge(ma, mb, platform), name |-> "basetype_merge" ]
    /\ UNCHANGED <<td, prev, op, kept, out, platform, ma, mb, mc, src_buf, dst_buf, strings>>

BasetypeMerge3 ==
    /\ mres' = [ value |-> basetype_merge_3(ma, mb, mc, platform),
                 name  |-> "basetype_merge_3" ]
    /\ UNCHANGED <<td, prev, op, kept, out, platform, ma, mb, mc, src_buf, dst_buf, strings>>

NextMerge == BasetypeMerge \/ BasetypeMerge3

SpecMerge == InitMerge /\ [][NextMerge]_vars

(***************************************************************************)
(* Comparisons: three descriptors are constructed and compared.            *)
(***************************************************************************)
\* every base kind as a plain scalar; two base kinds in every shape; and
\* two base kinds, two aggregates and two hints with every kind of array
\* length
CompareOperands ==
    { new(b, "Scalar", "NoSemantics", 0) : b \in BaseType }
    \cup { new(b, s[1], s[2], s[3]) : b \in { "UInt8", "Float" }, s \in Shapes }
    \cup { new(b, a, h, n) : b \in { "UInt8", "Float" },
                             a \in { "Scalar", "Vec3" },
                             h \in { "NoSemantics", "Color" },
                             n \in { -1, 0, MaxArrayLen - 1, MaxArrayLen } }

\* the third operand: one base kind and aggregate with every hint and
\* array length of the others, and two plain scalars
CompareOperandsC ==
    { new("Float", "Vec3", h, n) : h \in { "NoSemantics", "Color" },
                                    n \in { -1, 0, MaxArrayLen - 1, MaxArrayLen } }
    \cup { new(b, "Scalar", "NoSemantics", 0) : b \in { "UInt8", "Float" } }

InitCompare ==
    /\ NoBuffers
    /\ ma \in CompareOperands
    /\ mb \in CompareOperands
    /\ mc \in CompareOperandsC
    /\ mres = NoMerge
    /\ platform = [ ptr |-> 8, lastbase |-> 0, unsized |-> LAYOUT_ERROR ]
    /\ Constructed(Default, "new", << >>)
    /\ out = NoText

\* one comparison is made on the three operands
\* a.cmp(b), b.cmp(a), b.cmp(c), a.cmp(c)
Cmp ==
    /\ mres.name = "none"
    /\ mres' = [ value |-> << cmp(ma, mb), cmp(mb, ma), cmp(mb, mc), cmp(ma, mc) >>,
                 name  |-> "cmp" ]
    /\ UNCHANGED <<td, prev, op, kept, out, platform, ma, mb, mc, src_buf, dst_buf, strings>>

\* a < b
Lt ==
    /\ mres.name = "none"
    /\ mres' = [ value |-> lt(ma, mb), name |-> "lt" ]
    /\ UNCHANGED <<td, prev, op, kept, out, platform, ma, mb, mc, src_buf, dst_buf, strings>>

\* a == b
Eq ==
    /\ mres.name = "none"
    /\ mres' = [ value |-> eq(ma, mb), name |-> "eq" ]
    /\ UNCHANGED <<td, prev, op, kept, out, platform, ma, mb, mc, src_buf, dst_buf, strings>>

\* a != b
Ne ==
    /\ mres.name = "none"
    /\ mres' = [ value |-> ne(ma, mb), name |-> "ne" ]
    /\ UNCHANGED <<td, prev, op, kept, out, platform, ma, mb, mc, src_buf, dst_buf, strings>>

\* a.equivalent(b), b.equivalent(a), b.equivalent(c), a.equivalent(c),
\* a.equivalent(a)
Equivalent ==
    /\ mres.name = "none"
    /\ mres' = [ value |-> << equivalent(ma, mb), equivalent(mb, ma),
                              equivalent(mb, mc), equivalent(ma, mc),
                              equivalent(ma, ma) >>,
                 name  |-> "equivalent" ]
    /\ UNCHANGED <<td, prev, op, kept, out, platform, ma, mb, mc, src_buf, dst_buf, strings>>

\* a == B, B == a, a != B, B != a for the bare base kind B of b
EqBasetype ==
    /\ mres.name = "none"
    /\ mres' = [ value |-> << TypeDesc_eq_BaseType(ma, mb.basetype),
                              BaseType_eq_TypeDesc(mb.basetype, ma),
                              TypeDesc_ne_BaseType(ma, mb.basetype),
                              BaseType_ne_TypeDesc(mb.basetype, ma) >>,
                 name  |-> "eq_basetype" ]
    /\ UNCHANGED <<td, prev, op, kept, out, platform, ma, mb, mc, src_buf, dst_buf, strings>>

NextCompare ==
    \/ Cmp
    \/ Lt
    \/ Eq
    \/ Ne
    \/ Equivalent
    \/ EqBasetype

SpecCompare == InitCompare /\ [][NextCompare]_vars

(***************************************************************************)
(* The layout queries as functions of one descriptor on one build: the     *)
(* descriptor is built by new, then one query is made and its result kept  *)
(* in op, or the descriptor is stripped of its array length in place.      *)
(***************************************************************************)
i32_MAX == 2147483647

\* unsized, not an array, sized with small lengths and with the largest one
LayoutArrayLens == { -MaxArrayLen, -1, 0, 1, MaxArrayLen, i32_MAX }

LayoutOperands ==
    { new(b, a, h, n) : b \in BaseType, a \in Aggregate,
                        h \in { "NoSemantics", "Color" }, n \in LayoutArrayLens }

InitLayout ==
    /\ NoBuffers
    /\ \E value \in LayoutOperands : Constructed(value, "new", << >>)
    /\ platform \in Platforms
    /\ out = NoText
    /\ ma = Default /\ mb = Default /\ mc = Default
    /\ mres = NoMerge

Numelements ==
    /\ op.name = "new"
    /\ op' = Call("numelements", << >>, numelements(td, platform))
    /\ UNCHANGED <<td, prev, kept, out, platform, ma, mb, mc, mres, src_buf, dst_buf, strings>>

Basevalues ==
    /\ op.name = "new"
    /\ op' = Call("basevalues", << >>, basevalues(td, platform))
    /\ UNCHANGED <<td, prev, kept, out, platform, ma, mb, mc, mres, src_buf, dst_buf, strings>>

Size ==
    /\ op.name = "new"
    /\ op' = Call("size", << >>, size(td, platform))
    /\ UNCHANGED <<td, prev, kept, out, platform, ma, mb, mc, mres, src_buf, dst_buf, strings>>

Elementsize ==
    /\ op.name = "new"
    /\ op' = Call("elementsize", << >>, elementsize(td, platform))
    /\ UNCHANGED <<td, prev, kept, out, platform, ma, mb, mc, mres, src_buf, dst_buf, strings>>

Basesize ==
    /\ op.name = "new"
    /\ op' = Call("basesize", << >>, basesize(td, platform))
    /\ UNCHANGED <<td, prev, kept, out, platform, ma, mb, mc, mres, src_buf, dst_buf, strings>>

Elementtype ==
    /\ op.name = "new"
    /\ op' = Call("elementtype", << >>, elementtype(td))
    /\ UNCHANGED <<td, prev, kept, out, platform, ma, mb, mc, mres, src_buf, dst_buf, strings>>

Scalartype ==
    /\ op.name = "new"
    /\ op' = Call("scalartype", << >>, scalartype(td))
    /\ UNCHANGED <<td, prev, kept, out, platform, ma, mb, mc, mres, src_buf, dst_buf, strings>>

IsSigned ==
    /\ op.name = "new"
    /\ op' = Call("is_signed", << >>, is_signed(td))
    /\ UNCHANGED <<td, prev, kept, out, platform, ma, mb, mc, mres, src_buf, dst_buf, strings>>

NextLayout ==
    \/ IsSigned
    \/ Numelements
    \/ Basevalues
    \/ Size
    \/ Elementsize
    \/ Basesize
    \/ Elementtype
    \/ Scalartype
    \/ Unarray

SpecLayout == InitLayout /\ [][NextLayout]_vars

(***************************************************************************)
(* The enumerations across the boundary: the three variants of a          *)
(* descriptor are converted to u32, or to the boundary enums and back.     *)
(***************************************************************************)
InitEncode ==
    /\ \E b \in BaseType, a \in Aggregate, h \in VecSemantics :
           Constructed([ basetype |-> b, aggregate |-> a, vecsemantics |-> h,
                         arraylen |-> 0 ], "new", << >>)
    /\ Idle

ToU32 ==
    /\ op.name = "new"
    /\ op' = Call("u32", << >>, << u32_from_BaseType(td.basetype),
                                   u32_from_Aggregate(td.aggregate),
                                   u32_from_VecSemantics(td.vecsemantics) >>)
    /\ UNCHANGED <<td, prev, kept, out, platform, ma, mb, mc, mres, src_buf, dst_buf, strings>>

RoundTrip ==
    /\ op.name = "new"
    /\ op' = Call("round_trip", << >>,
                  << BaseType_from(sys_BaseType_from(td.basetype)),
                     Aggregate_from(sys_Aggregate_from(td.aggregate)),
                     VecSemantics_from(sys_VecSemantics_from(td.vecsemantics)) >>)
    /\ UNCHANGED <<td, prev, kept, out, platform, ma, mb, mc, mres, src_buf, dst_buf, strings>>

NextEncode ==
    \/ ToU32
    \/ RoundTrip

SpecEncode == InitEncode /\ [][NextEncode]_vars

(***************************************************************************)
(* Conversion: a source and a destination descriptor, the two slices and   *)
(* a count are given, and convert_type is called once.  The source slice   *)
(* holds sample values of its base kind; either slice can be one byte      *)
(* shorter or longer than the count asks for.                              *)
(***************************************************************************)
MaxCount == 2

SampleTexts ==
    << << "a", "b", "c" >>,
       << "1", "2" >>,
       << "-", "7" >>,
       << "3", ".", "2", "5" >>,
       << >>,
       << "1", "2", "x" >>,
       << "1", "e", "2" >>,
       << "1", "6", "7", "7", "7", "2", "1", "7" >>,
       << "+", "5" >>,
       << "1", "2", "3", "4", "5", "6", "7", "8", "9", "0" >>,
       << ".", "5" >>,
       << "-" >> >>

\* 5, -1, 16777217, 16777219, i32::MAX, i32::MIN, the bits of 3.25f32,
\* -16777217 and 0
SampleWords ==
    << << 5, 0, 0, 0 >>, << 255, 255, 255, 255 >>, << 1, 0, 0, 1 >>,
       << 3, 0, 0, 1 >>, << 255, 255, 255, 127 >>, << 0, 0, 0, 128 >>,
       << 0, 0, 80, 64 >>, << 255, 255, 255, 254 >>, << 0, 0, 0, 0 >> >>

\* the sample values of one base kind: the bytes of one value each
SampleValues(btype, plat) ==
    LET width == basesize([ basetype |-> btype, aggregate |-> "Scalar",
                               vecsemantics |-> "NoSemantics", arraylen |-> 0 ], plat)
    IN  CASE btype \in { "Int32", "UInt32", "Float" } -> SampleWords
          [] btype = "String" ->
                [ i \in 1..Len(SampleTexts) |-> pointer_to(i, plat) ]
          [] width = 0 -> << << >> >>
          [] OTHER -> << [ i \in 1..width |-> i ],
                         [ i \in 1..width |-> 255 ],
                         [ i \in 1..width |-> 0 ] >>

\* count sample values in a row, starting with sample k and going round
SampleBuffer(btype, count, k, plat) ==
    LET values == SampleValues(btype, plat)
        width  == Len(values[1])
    IN  [ i \in 1..(count * width) |->
            values[((k + (i - 1) \div width - 1) % Len(values)) + 1][((i - 1) % width) + 1] ]

\* a buffer one byte shorter, as it is, or one byte longer
Resize(buf, delta) ==
    IF delta < 0 THEN SubSeq(buf, 1, Len(buf) - 1)
    ELSE IF delta > 0 THEN Append(buf, 0)
    ELSE buf

LengthCases == { << 0, 0 >>, << -1, 0 >>, << 0, -1 >>, << 1, 1 >> }

BestEffort == { << 0, 0, 0, 0 >>, << 255, 255, 255, 127 >> }

ConvertPlatforms ==
    { [ ptr |-> p, lastbase |-> 4, unsized |-> LAYOUT_ERROR ] : p \in { 4, 8 } }

ConvertSources ==
    { [ basetype |-> b, aggregate |-> "Scalar", vecsemantics |-> "NoSemantics",
        arraylen |-> 0 ] : b \in BaseType }
    \cup { [ basetype |-> b, aggregate |-> "Vec2", vecsemantics |-> "Color",
             arraylen |-> 0 ] : b \in BaseType }
    \cup { [ basetype |-> b, aggregate |-> "Scalar", vecsemantics |-> "NoSemantics",
             arraylen |-> 2 ] : b \in { "Int32", "Float" } }

ConvertDestinations ==
    { [ basetype |-> b, aggregate |-> a, vecsemantics |-> "NoSemantics",
        arraylen |-> 0 ] : b \in BaseType, a \in { "Scalar", "Vec2" } }
    \cup { [ basetype |-> b, aggregate |-> "Scalar", vecsemantics |-> "NoSemantics",
             arraylen |-> 2 ] : b \in { "Int32", "Float" } }

InitConvert ==
    /\ platform \in ConvertPlatforms
    /\ ma \in ConvertSources
    /\ mb \in ConvertDestinations
    /\ \E n \in 1..MaxCount, any \in BestEffort, cut \in LengthCases,
          k \in 1..Len(SampleValues(ma.basetype, platform)) :
            /\ src_buf = Resize(SampleBuffer(ma.basetype,
                                             n * u32_from_Aggregate(ma.aggregate),
                                             k, platform), cut[1])
            /\ dst_buf = Resize([ i \in 1..(n * elementsize(mb, platform)) |-> 170 ],
                                cut[2])
            /\ op = Call("start", << n, any >>, 0)
    /\ strings = SampleTexts
    /\ td = Default /\ prev = td /\ kept = td
    /\ mc = Default
    /\ mres = NoMerge
    /\ out = NoText

\* convert_type(srctype, src, dsttype, dst, n): the call is recorded with the
\* destination as it was and with what it returned
ConvertType ==
    /\ op.name = "start"
    /\ \E r \in convert_type(ma, src_buf, mb, dst_buf, op.arg[1], strings,
                              platform, op.arg[2]) :
            /\ dst_buf' = r[2]
            /\ strings' = r[3]
            /\ op' = Call("convert_type", << op.arg[1], op.arg[2], dst_buf >>,
                          << r[1], r[4], r[5] >>)
    /\ UNCHANGED <<td, prev, kept, out, platform, ma, mb, mc, mres, src_buf>>

SpecConvert == InitConvert /\ [][ConvertType]_vars

(***************************************************************************)
(* Properties.                                                             *)
(***************************************************************************)
Desc(basetype, aggregate, vecsemantics, arraylen) ==
    [ basetype |-> basetype, aggregate |-> aggregate,
      vecsemantics |-> vecsemantics, arraylen |-> arraylen ]

\* the six aliases and the descriptor each stands for
AliasDescriptors ==
    << [ name |-> <<"c","o","l","o","r">>,
         desc |-> Desc("Float", "Vec3", "Color", 0) ],
       [ name |-> <<"p","o","i","n","t">>,
         desc |-> Desc("Float", "Vec3", "Point", 0) ],
       [ name |-> <<"v","e","c","t","o","r">>,
         desc |-> Desc("Float", "Vec3", "Vector", 0) ],
       [ name |-> <<"n","o","r","m","a","l">>,
         desc |-> Desc("Float", "Vec3", "Normal", 0) ],
       [ name |-> <<"m","a","t","r","i","x">>,
         desc |-> Desc("Float", "Matrix44", "NoSemantics", 0) ],
       [ name |-> <<"m","a","t","r","i","x","3","3">>,
         desc |-> Desc("Float", "Matrix33", "NoSemantics", 0) ] >>

\* every keyword with its descriptor: the base keywords of the tests' table,
\* then the aliases
KeywordDescriptors ==
    { [ name |-> p[2], desc |-> p[1] ] : p \in from_string_strategy }
    \cup { AliasDescriptors[i] : i \in 1..Len(AliasDescriptors) }

Parsed == op.name = "from" \/ (op.name = "set_from_string" /\ op.ret # 0)

\* C1: constructing a descriptor from a keyword of the table gives exactly
\* the descriptor of the table with array length 0: (base, Scalar,
\* NoSemantics, 0) for each of the 16 base keywords, the Float aggregate with
\* its hint for each of the 6 aliases.
C1_KeywordGivesTableDescriptor ==
    op.name = "from" =>
        /\ \A b \in BaseType :
               (b # "LastBase" /\ op.arg = base_type_str(b))
                   => td = Desc(b, "Scalar", "NoSemantics", 0)
        /\ \A i \in 1..Len(AliasDescriptors) :
               op.arg = AliasDescriptors[i].name => td = AliasDescriptors[i].desc
        /\ Cardinality({ k.name : k \in KeywordDescriptors }) = 22

C1_Witness ==
    /\ op.name = "from"
    /\ op.arg = <<"p","o","i","n","t">>
    /\ td = Desc("Float", "Vec3", "Point", 0)

\* the keywords that have another keyword as a proper prefix
LongerKeywords ==
    { [ desc |-> Desc("UInt8", "Scalar", "NoSemantics", 0),
        long |-> <<"u","i","n","t","8">>, short |-> <<"u","i","n","t">> ],
      [ desc |-> Desc("UInt16", "Scalar", "NoSemantics", 0),
        long |-> <<"u","i","n","t","1","6">>, short |-> <<"u","i","n","t">> ],
      [ desc |-> Desc("UInt64", "Scalar", "NoSemantics", 0),
        long |-> <<"u","i","n","t","6","4">>, short |-> <<"u","i","n","t">> ],
      [ desc |-> Desc("Int8", "Scalar", "NoSemantics", 0),
        long |-> <<"i","n","t","8">>, short |-> <<"i","n","t">> ],
      [ desc |-> Desc("Int16", "Scalar", "NoSemantics", 0),
        long |-> <<"i","n","t","1","6">>, short |-> <<"i","n","t">> ],
      [ desc |-> Desc("Int64", "Scalar", "NoSemantics", 0),
        long |-> <<"i","n","t","6","4">>, short |-> <<"i","n","t">> ],
      [ desc |-> Desc("Float", "Matrix33", "NoSemantics", 0),
        long |-> <<"m","a","t","r","i","x","3","3">>, short |-> <<"m","a","t","r","i","x">> ] }

\* C2: a keyword that extends another keyword parses as the longer one: the
\* descriptor is the longer keyword's and the consumed length is the whole
\* keyword, never the shorter keyword with text left over.
C2_LongestMatch ==
    \A p \in LongerKeywords :
        op.arg = p.long =>
            /\ op.name = "from" => td = p.desc
            /\ op.name = "set_from_string"
                   => /\ td = p.desc
                      /\ op.ret = Len(p.long)
                      /\ op.ret # Len(p.short)

C2_Witness ==
    /\ op.name = "set_from_string"
    /\ op.arg = <<"u","i","n","t","1","6">>
    /\ op.ret = 6
    /\ td.basetype = "UInt16"
    /\ prev.basetype = "UInt32"

SizedSuffix(n) == << "[" >> \o IntToDigits(n) \o << "]" >>
UnsizedSuffix == << "[", "]" >>
Float3 == <<"f","l","o","a","t","[","3","]">>

\* C3: after a keyword the suffix decides the array length and nothing
\* else: "[n]" gives n, "[]" gives -1, no suffix gives 0, and base, aggregate
\* and hint are those of the bare keyword; "float[3]" is (Float, Scalar,
\* NoSemantics, 3) of size 12.
C3_SuffixSetsArraylenOnly ==
    Parsed =>
        /\ \A k \in KeywordDescriptors :
               /\ op.arg = k.name => td = k.desc /\ td.arraylen = 0
               /\ op.arg = k.name \o UnsizedSuffix
                      => td = [ k.desc EXCEPT !.arraylen = -1 ]
               /\ \A n \in SuffixLens :
                      op.arg = k.name \o SizedSuffix(n)
                          => td = [ k.desc EXCEPT !.arraylen = n ]
        /\ op.arg = Float3
               => /\ td = Desc("Float", "Scalar", "NoSemantics", 3)
                  /\ size(td, platform) = usize_from(12)

C3_Witness ==
    /\ op.name = "from"
    /\ op.arg = Float3
    /\ td = Desc("Float", "Scalar", "NoSemantics", 3)
    /\ size(td, platform) = usize_from(12)

NoKeywordPrefix(s) == \A k \in KeywordDescriptors : ~IsPrefix(k.name, s)
UnknownKeyword == <<"u","n","k","n","o","w","n">>

\* C4: a text none of whose prefixes is a keyword parses without an error
\* to an Unknown descriptor and consumed length 0; the keyword "unknown"
\* parses to the same descriptor, and only its length 7 tells the two apart.
C4_NoMatchIsUnknownAndZero ==
    /\ NoKeywordPrefix(op.arg) =>
           /\ op.name = "from" => td = Desc("Unknown", "Scalar", "NoSemantics", 0)
           /\ op.name = "set_from_string" => op.ret = 0
           /\ parse_typestring(op.arg) = [ typedesc |-> unknown_typedesc, len |-> 0 ]
    /\ op.arg = UnknownKeyword =>
           /\ op.name = "from" => td = Desc("Unknown", "Scalar", "NoSemantics", 0)
           /\ op.name = "set_from_string"
                  => op.ret = 7 /\ td = Desc("Unknown", "Scalar", "NoSemantics", 0)

C4_Witness ==
    /\ op.name = "from"
    /\ op.arg = <<"a","b","c">>
    /\ td.basetype = "Unknown"

\* C5: set_from_string is all or nothing: a call that returns 0 leaves the
\* four fields as they were, so the descriptor is always the result of the
\* last call that returned a length other than 0, or the initial value.
C5_AllOrNothing ==
    /\ td = kept
    /\ (op.name = "set_from_string" /\ op.ret = 0) => td = prev

C5_Witness ==
    /\ op.name = "set_from_string"
    /\ op.ret = 0
    /\ op.arg = <<"f","l","o","a","t","[">>
    /\ td = Desc("Float", "Scalar", "NoSemantics", 2)
    /\ td = kept

\* C6: a successful set_from_string replaces the whole descriptor: whatever
\* the descriptor was, after set_from_string of a base keyword it is (base
\* of the keyword, Scalar, NoSemantics, 0).
C6_SuccessReplacesWhole ==
    op.name = "set_from_string" =>
        \A p \in from_string_strategy :
            op.arg = p[2] =>
                /\ op.ret # 0
                /\ td = p[1]
                /\ td = Desc(td.basetype, "Scalar", "NoSemantics", 0)
                /\ base_type_str(td.basetype) = op.arg

C6_Witness ==
    /\ op.name = "set_from_string"
    /\ op.arg = <<"h","a","l","f">>
    /\ prev = Desc("Double", "Vec4", "Normal", -1)
    /\ td = Desc("Half", "Scalar", "NoSemantics", 0)

\* a keyword alone, or followed by "[n]" with n > 0 or by "[]"
CanonicalTexts ==
    { k.name \o s : k \in KeywordDescriptors,
                    s \in { << >>, UnsizedSuffix }
                          \cup { SizedSuffix(n) : n \in SuffixLens } }

\* C7: printing undoes parsing: the text of the descriptor parsed from a
\* keyword, alone or with a "[n]" or "[]" suffix, is that text again; and
\* (base, Scalar, NoSemantics, 0) prints as the base keyword for every base
\* kind but LastBase.
C7_PrintParseRoundTrip ==
    out # NoText =>
        /\ (Parsed /\ op.arg \in CanonicalTexts) => out = op.arg
        /\ (td = Desc(td.basetype, "Scalar", "NoSemantics", 0)
            /\ td.basetype # "LastBase")
               => out = base_type_str(td.basetype)

C7_Witness ==
    /\ op.name = "from"
    /\ op.arg = <<"m","a","t","r","i","x","3","3">> \o SizedSuffix(TwoDigitLen)
    /\ out = op.arg

ScalarOf(basetype) == Desc(basetype, "Scalar", "NoSemantics", 0)

\* the rule list as the property states it, on the two base kinds and their
\* scalar byte sizes: p is the primary kind, o the other one
RuleList(a, b, size_a, size_b) ==
    IF a = b THEN a
    ELSE IF a = "Unknown" THEN b
    ELSE IF b = "Unknown" THEN a
    ELSE LET p == IF usize_lt(size_a, size_b) THEN b ELSE a
             o == IF usize_lt(size_a, size_b) THEN a ELSE b
         IN  CASE p \in { "Double", "Float" } -> p
               [] p = "UInt32" /\ o \in { "UInt16", "UInt8" } -> p
               [] p = "Int32" /\ o \in { "Int16", "Int8", "UInt16", "UInt8" } -> p
               [] p \in { "UInt16", "Half" } /\ o = "UInt8" -> p
               [] p \in { "Int16", "Half" } /\ o \in { "Int8", "UInt8" } -> p
               [] OTHER -> "Float"

\* C8: basetype_merge looks at the two base kinds only and follows the rule
\* list: equal kinds give that kind, Unknown gives the other kind, otherwise
\* the operands are exchanged only when the second is strictly larger in
\* bytes, and the primary kind is kept in the five listed cases and Float is
\* the answer in every other case.
C8_MergeFollowsRuleList ==
    mres.name = "basetype_merge" =>
        /\ mres.value = RuleList(ma.basetype, mb.basetype,
                                 size(ScalarOf(ma.basetype), platform),
                                 size(ScalarOf(mb.basetype), platform))
        /\ mres.value = test_basetype_merge_expected(ma.basetype, mb.basetype,
                                                     platform)
        /\ mres.value = basetype_merge(ScalarOf(ma.basetype),
                                       ScalarOf(mb.basetype), platform)

C8_Witness ==
    /\ mres.name = "basetype_merge"
    /\ ma = Desc("Int8", "Vec3", "Color", -1)
    /\ mb.basetype = "UInt16"
    /\ mres.value = "Float"

NumericKinds ==
    { "UInt8", "Int8", "UInt16", "Int16", "UInt32", "Int32", "UInt64",
      "Int64", "Half", "Float", "Double" }
FloatKinds == { "Half", "Float", "Double" }
SignedKinds == { "Int8", "Int16", "Int32", "Int64" }

\* width of a kind in bits
Bits(k) ==
    CASE k \in { "UInt8", "Int8" } -> 8
      [] k \in { "UInt16", "Int16", "Half" } -> 16
      [] k \in { "UInt32", "Int32", "Float" } -> 32
      [] OTHER -> 64

\* bits of the largest magnitude of an integer kind
MagnitudeBits(k) == IF k \in SignedKinds THEN Bits(k) - 1 ELSE Bits(k)

\* bits of the significand of a floating-point kind, the hidden bit included
SignificandBits(k) ==
    CASE k = "Half" -> 11
      [] k = "Float" -> 24
      [] OTHER -> 53

\* r holds every value of a, exactly
Holds(r, a) ==
    IF a \in FloatKinds
    THEN r \in FloatKinds /\ Bits(r) >= Bits(a)
    ELSE IF r \in FloatKinds
    THEN MagnitudeBits(a) <= SignificandBits(r)
    ELSE IF a \in SignedKinds
    THEN r \in SignedKinds /\ Bits(r) >= Bits(a)
    ELSE MagnitudeBits(r) >= Bits(a)

\* C9: for every two numeric base kinds the kind basetype_merge answers
\* holds every value of the first and every value of the second without
\* loss of range or precision.
C9_MergeHoldsBothOperands ==
    (/\ mres.name = "basetype_merge"
     /\ ma.basetype \in NumericKinds
     /\ mb.basetype \in NumericKinds)
        => /\ Holds(mres.value, ma.basetype)
           /\ Holds(mres.value, mb.basetype)

\* C10: basetype_merge_3 of a, b and c is basetype_merge of the merge of a
\* and b with c: the two-way rule list, applied from left to right.
C10_Merge3IsLeftToRight ==
    mres.name = "basetype_merge_3" =>
        /\ mres.value =
               basetype_merge(from_basetype_arraylen(
                                  basetype_merge(ma, mb, platform), 0),
                              mc, platform)
        /\ mres.value =
               test_basetype_merge_expected(
                   test_basetype_merge_expected(ma.basetype, mb.basetype,
                                                platform),
                   mc.basetype, platform)

C10_Witness ==
    /\ mres.name = "basetype_merge_3"
    /\ ma.basetype = "UInt8"
    /\ mb.basetype = "UInt16"
    /\ mc.basetype = "Int16"
    /\ mres.value = "Float"

\* position of a variant in its enum, counted from 0
Ordinal(variants, x) == (CHOOSE i \in 1..Len(variants) : variants[i] = x) - 1

\* the first differing field decides, in the order base, aggregate, array
\* length, hint
FirstDifferingFieldLess(a, b) ==
    IF a.basetype # b.basetype
    THEN Ordinal(BaseTypeVariants, a.basetype) < Ordinal(BaseTypeVariants, b.basetype)
    ELSE IF a.aggregate # b.aggregate
    THEN Ordinal(AggregateVariants, a.aggregate) < Ordinal(AggregateVariants, b.aggregate)
    ELSE IF a.arraylen # b.arraylen
    THEN a.arraylen < b.arraylen
    ELSE IF a.vecsemantics # b.vecsemantics
    THEN Ordinal(VecSemanticsVariants, a.vecsemantics)
             < Ordinal(VecSemanticsVariants, b.vecsemantics)
    ELSE FALSE

\* C11: a < b is decided by the first field that differs, in the order base
\* code, aggregate code, array length (signed: unsized before non-array
\* before sized), hint code; descriptors equal in all four fields are not
\* less than each other.
C11_LtByFirstDifferingField ==
    mres.name = "lt" =>
        /\ mres.value = FirstDifferingFieldLess(ma, mb)
        /\ mres.value = test_lt_expected(ma, mb)
        /\ ma = mb => mres.value = FALSE
        /\ (/\ ma.basetype = mb.basetype
            /\ ma.aggregate = mb.aggregate
            /\ \/ ma.arraylen < 0 /\ mb.arraylen >= 0
               \/ ma.arraylen = 0 /\ mb.arraylen > 0) => mres.value = TRUE

C11_Witness ==
    /\ mres.name = "lt"
    /\ mres.value = TRUE
    /\ ma = Desc("Float", "Vec3", "Color", -1)
    /\ mb = Desc("Float", "Vec3", "NoSemantics", 0)

Reverse(ordering) ==
    CASE ordering = "Less" -> "Greater"
      [] ordering = "Greater" -> "Less"
      [] OTHER -> "Equal"

\* C12: the ordering is a strict total order that agrees with equality:
\* cmp(a, b) is Equal exactly when a == b, cmp(b, a) is the reverse of
\* cmp(a, b), and a < b with b < c gives a < c.
C12_StrictTotalOrder ==
    mres.name = "cmp" =>
        /\ (mres.value[1] = "Equal") = eq(ma, mb)
        /\ (mres.value[1] = "Equal") = (ma = mb)
        /\ mres.value[2] = Reverse(mres.value[1])
        /\ (mres.value[1] = "Less" /\ mres.value[3] = "Less")
               => mres.value[4] = "Less"

C12_Witness ==
    /\ mres.name = "cmp"
    /\ mres.value = << "Less", "Greater", "Less", "Less" >>
    /\ ma.basetype = "UInt8"
    /\ mb = Desc("Float", "Scalar", "Color", MaxArrayLen)
    /\ mc = Desc("Float", "Vec3", "NoSemantics", -1)

AllFieldsEqual(a, b) ==
    /\ a.basetype = b.basetype
    /\ a.aggregate = b.aggregate
    /\ a.vecsemantics = b.vecsemantics
    /\ a.arraylen = b.arraylen

\* C13: two descriptors are equal exactly when base, aggregate, hint and
\* array length are all equal, and != is the negation of ==.
C13_EqIsFieldwise ==
    /\ mres.name = "eq" =>
           /\ mres.value = AllFieldsEqual(ma, mb)
           /\ mres.value = test_eq_expected(ma, mb)
           /\ mres.value = ~ne(ma, mb)
    /\ mres.name = "ne" =>
           /\ mres.value = ~AllFieldsEqual(ma, mb)
           /\ mres.value = ~test_eq_expected(ma, mb)
           /\ mres.value = ~eq(ma, mb)

C13_Witness ==
    /\ mres.name = "eq"
    /\ mres.value = FALSE
    /\ ma = Desc("Float", "Vec3", "Color", -1)
    /\ mb = Desc("Float", "Vec3", "NoSemantics", -1)

\* C14: equivalent(a, b) holds exactly when base, aggregate and array
\* length are equal; the hint is ignored.
C14_EquivalentIgnoresHint ==
    mres.name = "equivalent" =>
        mres.value[1] = (/\ ma.basetype = mb.basetype
                         /\ ma.aggregate = mb.aggregate
                         /\ ma.arraylen = mb.arraylen)

C14_Witness ==
    /\ mres.name = "equivalent"
    /\ mres.value[1] = TRUE
    /\ ma = Desc("UInt8", "Vec3", "Color", MaxArrayLen)
    /\ mb = Desc("UInt8", "Vec3", "NoSemantics", MaxArrayLen)

\* C15: equivalent is reflexive, symmetric and transitive over all
\* descriptors, sized and unsized arrays included; a == b implies
\* equivalent(a, b); descriptors that differ in the hint only are
\* equivalent and not equal.
C15_EquivalenceRelation ==
    mres.name = "equivalent" =>
        /\ mres.value[5]
        /\ mres.value[1] = mres.value[2]
        /\ (mres.value[1] /\ mres.value[3]) => mres.value[4]
        /\ eq(ma, mb) => mres.value[1]
        /\ (ma # mb /\ [ ma EXCEPT !.vecsemantics = mb.vecsemantics ] = mb)
               => mres.value[1] /\ ~eq(ma, mb)

C15_Witness ==
    /\ mres.name = "equivalent"
    /\ mres.value = << TRUE, TRUE, TRUE, TRUE, TRUE >>
    /\ ma = Desc("Float", "Vec3", "Color", -1)
    /\ mb = Desc("Float", "Vec3", "NoSemantics", -1)
    /\ mc = Desc("Float", "Vec3", "Color", -1)

\* C16: a descriptor equals a bare base kind exactly when it is a scalar,
\* is no array and has that base kind, whatever its hint; both operand
\* orders agree, and != is the negation in both orders.
C16_EqBasetype ==
    mres.name = "eq_basetype" =>
        /\ mres.value[1] = (/\ ma.aggregate = "Scalar"
                            /\ ma.arraylen = 0
                            /\ ma.basetype = mb.basetype)
        /\ mres.value[1] = test_eq_basetype_expected(ma, mb.basetype)
        /\ mres.value[2] = mres.value[1]
        /\ mres.value[3] = ~mres.value[1]
        /\ mres.value[4] = ~mres.value[1]

C16_Witness ==
    /\ mres.name = "eq_basetype"
    /\ mres.value = << TRUE, TRUE, FALSE, FALSE >>
    /\ ma = Desc("Float", "Scalar", "Color", 0)
    /\ mb.basetype = "Float"
    /\ mb.aggregate = "Vec3"

\* the number of base values in one aggregate
ComponentCount(aggregate) ==
    CASE aggregate = "Scalar" -> 1
      [] aggregate = "Vec2" -> 2
      [] aggregate = "Vec3" -> 3
      [] aggregate = "Vec4" -> 4
      [] aggregate = "Matrix33" -> 9
      [] aggregate = "Matrix44" -> 16

\* r, a count in limbs, is n times factor: checked by dividing r by factor
IsProduct(r, n, factor) ==
    IF factor = 0 THEN r = << 0, 0 >>
    ELSE LET low == (r[1] % factor) * Limb + r[2]
         IN  /\ r[1] \div factor = n \div Limb
             /\ low \div factor = n % Limb
             /\ low % factor = 0

ElementCount(d) == IF d.arraylen = 0 THEN 1 ELSE d.arraylen

\* C17: for a descriptor that is no unsized array, numelements() is 1 for a
\* non-array and the array length otherwise, basevalues() is numelements()
\* times the component count of the aggregate and size() is numelements()
\* times elementsize(), all exact, without truncation or wrap-around, for
\* every array length up to the largest 32-bit signed value.
C17_CountsAreExactProducts ==
    td.arraylen >= 0 =>
        /\ op.name = "numelements" => op.ret = usize_from(ElementCount(td))
        /\ op.name = "basevalues"
               => IsProduct(op.ret, ElementCount(td), ComponentCount(td.aggregate))
        /\ op.name = "size"
               => IsProduct(op.ret, ElementCount(td), elementsize(td, platform))

\* C18: numelements(), basevalues() and size() on an unsized array fail
\* with an explicit error outcome and never return a count.
C18_UnsizedQueriesFail ==
    (td.arraylen < 0 /\ op.name \in { "numelements", "basevalues", "size" })
        => op.ret = LAYOUT_ERROR

\* the byte-size table of the base kinds below LastBase
BaseSizeTable(base, ptr) ==
    CASE base \in { "Unknown", "None" } -> 0
      [] base \in { "UInt8", "Int8" } -> 1
      [] base \in { "UInt16", "Int16", "Half" } -> 2
      [] base \in { "UInt32", "Int32", "Float" } -> 4
      [] base \in { "UInt64", "Int64", "Double", "UStringHash" } -> 8
      [] base \in { "String", "Ptr" } -> ptr

\* C19: for every base kind but LastBase, elementsize() is the component
\* count of the aggregate times basesize(), and basesize() is the table
\* value of the base kind: 0 for Unknown and None, 1, 2, 4 or 8 for the
\* numeric kinds, 8 for UStringHash, the pointer width for String and Ptr.
C19_ElementsizeFromTable ==
    td.basetype # "LastBase" =>
        /\ op.name = "basesize" =>
               /\ op.ret = BaseSizeTable(td.basetype, platform.ptr)
               /\ op.ret = test_basesize_expected(td.basetype, platform)
        /\ op.name = "elementsize" =>
               /\ op.ret = ComponentCount(td.aggregate) * basesize(td, platform)
               /\ op.ret = ComponentCount(td.aggregate)
                               * BaseSizeTable(td.basetype, platform.ptr)
               /\ op.ret = test_elementsize_expected(td, platform)

C19_Witness ==
    /\ op.name = "elementsize"
    /\ td = Desc("Ptr", "Matrix44", "Color", -1)
    /\ platform.ptr = 4
    /\ op.ret = 64

\* C20: elementtype(d) and the in-place unarray() give d with array length
\* 0 and base, aggregate and hint unchanged; scalartype(d) gives the base of
\* d as a scalar without hint and with array length 0; for every d, unsized
\* arrays included.
C20_ElementAndScalarType ==
    /\ op.name = "elementtype" =>
           /\ op.ret = Desc(td.basetype, td.aggregate, td.vecsemantics, 0)
           /\ op.ret = test_elementtype_expected(td.basetype, td.aggregate,
                                                 td.vecsemantics)
    /\ op.name = "unarray" =>
           td = Desc(prev.basetype, prev.aggregate, prev.vecsemantics, 0)
    /\ op.name = "scalartype" =>
           /\ op.ret = Desc(td.basetype, "Scalar", "NoSemantics", 0)
           /\ op.ret = test_scalartype_expected(td.basetype)

C20_Witness ==
    /\ op.name = "elementtype"
    /\ td = Desc("Half", "Vec4", "Color", -1)
    /\ op.ret = Desc("Half", "Vec4", "Color", 0)

\* C29: basetype_merge is commutative: merge(a, b) = merge(b, a) for every
\* pair of base kinds, pairs of equal byte size and pairs with 64-bit
\* integers, String, Ptr, None and LastBase included.
C29_MergeCommutative ==
    mres.name = "basetype_merge" =>
        mres.value = basetype_merge(mb, ma, platform)

\* two different known kinds of equal byte size, one of them Double: the
\* operands are not exchanged, and Double wins only as the first operand
DoubleTie(a, b, plat) ==
    /\ a # b
    /\ "Unknown" \notin { a, b }
    /\ "Double" \in { a, b }
    /\ basesize(ScalarOf(a), plat) = basesize(ScalarOf(b), plat)

\* C29 as it holds: merge(a, b) = merge(b, a) unless one operand is Double
\* and the other a different kind of the same byte size; then the result is
\* Double with Double as the first operand and Float with Double as the
\* second.
C29_MergeCommutesExceptDoubleTie ==
    mres.name = "basetype_merge" =>
        LET a  == ma.basetype
            b  == mb.basetype
            ba == basetype_merge(mb, ma, platform)
        IN  IF DoubleTie(a, b, platform)
            THEN /\ mres.value = IF a = "Double" THEN "Double" ELSE "Float"
                 /\ ba = IF b = "Double" THEN "Double" ELSE "Float"
            ELSE mres.value = ba

C29_Witness ==
    /\ mres.name = "basetype_merge"
    /\ ma.basetype = "Int64"
    /\ mb.basetype = "Double"
    /\ mres.value = "Float"
    /\ basetype_merge(mb, ma, platform) = "Double"

InTable(d) ==
    /\ d.basetype \in BaseType
    /\ d.aggregate \in Aggregate
    /\ d.vecsemantics \in VecSemantics
    /\ sys_TypeDesc_from(d).basetype \in 0..16
    /\ sys_TypeDesc_from(d).aggregate \in { 1, 2, 3, 4, 9, 16 }
    /\ sys_TypeDesc_from(d).vecsemantics \in 0..8
    /\ TypeDesc_from(sys_TypeDesc_from(d)) = d

\* C30: from any descriptor built by new, from_basetype_arraylen,
\* from_basetype_aggregate_arraylen or from a string, and after any sequence
\* of set_from_string (successful or failed), unarray, elementtype and
\* scalartype calls, the base, aggregate and hint of the descriptor are
\* members of their enumerations, so the conversion from the boundary struct
\* never reaches its unreachable!() branches.
C30_DescriptorStaysInTable ==
    /\ InTable(td)
    /\ InTable(prev)
    /\ PANIC \notin { td.basetype, td.aggregate, td.vecsemantics }

C30_Witness ==
    /\ op.name = "scalartype"
    /\ prev = Desc("Float", "Vec3", "Point", -1)
    /\ td = Desc("Float", "Scalar", "NoSemantics", 0)

\* C22: the numeric encoding of the enumerations is the fixed external one:
\* a BaseType as u32 is its position 0..16 in declaration order (Unknown 0,
\* UStringHash 15, LastBase 16), an Aggregate as u32 is its component count
\* (1, 2, 3, 4, 9, 16), a VecSemantics as u32 is its position 0..8, and
\* every variant converted to the boundary enum and back is the same
\* variant.
C22_EncodingIsFixed ==
    /\ op.name = "u32" =>
           /\ op.ret[1] = Ordinal(BaseTypeVariants, td.basetype)
           /\ op.ret[1] \in 0..16
           /\ td.basetype = "Unknown" => op.ret[1] = 0
           /\ td.basetype = "UStringHash" => op.ret[1] = 15
           /\ td.basetype = "LastBase" => op.ret[1] = 16
           /\ op.ret[2] = ComponentCount(td.aggregate)
           /\ op.ret[2] \in { 1, 2, 3, 4, 9, 16 }
           /\ op.ret[3] = Ordinal(VecSemanticsVariants, td.vecsemantics)
           /\ op.ret[3] \in 0..8
    /\ op.name = "round_trip" =>
           op.ret = << td.basetype, td.aggregate, td.vecsemantics >>

C22_Witness ==
    /\ op.name = "u32"
    /\ td = Desc("UStringHash", "Matrix33", "Box", 0)
    /\ op.ret = << 15, 9, 8 >>

Converted == op.name = "convert_type"
ConvertedCount == op.arg[1]
DstBefore == op.arg[3]
Returned == op.ret[1]

\* the bytes of one element of a descriptor on the build of the state
ElementBytes(d) ==
    ComponentCount(d.aggregate)
    * (IF d.basetype = "LastBase" THEN platform.lastbase
       ELSE BaseSizeTable(d.basetype, platform.ptr))

\* both slices hold the ConvertedCount elements the call is asked for
BothFit ==
    /\ Len(src_buf) >= ConvertedCount * ElementBytes(ma)
    /\ Len(DstBefore) >= ConvertedCount * ElementBytes(mb)

Int32Scalar == Desc("Int32", "Scalar", "NoSemantics", 0)
FloatScalar == Desc("Float", "Scalar", "NoSemantics", 0)

\* the fields of the single-precision float in bytes w
F32Negative(w) == w[4] >= 128
F32Exponent(w) == (w[4] % 128) * 2 + w[3] \div 128
F32Fraction(w) == (w[3] % 128) * 65536 + w[2] * 256 + w[1]

\* the float in bytes w is a float nearest to the i32 in bytes v: it is
\* significand * 2^shift with a significand of 24 bits; |v| is cut into
\* q * 2^shift + r, and the significand is q with r at most half of 2^shift,
\* or q + 1 with r at least half of it
NearestF32(v, w) ==
    LET m     == IF v[4] >= 128 THEN limbs_neg(bytes_to_limbs(v))
                 ELSE bytes_to_limbs(v)
        sig   == 8388608 + F32Fraction(w)
        shift == F32Exponent(w) - 150
    IN  IF m = << 0, 0 >> THEN w = << 0, 0, 0, 0 >>
        ELSE /\ F32Negative(w) = (v[4] >= 128)
             /\ F32Exponent(w) >= 127
             /\ shift <= 8
             /\ IF shift <= 0
                THEN /\ m[1] < 256
                     /\ (m[1] * 65536 + m[2]) * 2^(0 - shift) = sig
                ELSE /\ m[1] < 2^(8 + shift)
                     /\ \/ /\ sig = m[1] * 2^(16 - shift) + m[2] \div 2^shift
                           /\ 2 * (m[2] % 2^shift) <= 2^shift
                        \/ /\ sig = m[1] * 2^(16 - shift) + m[2] \div 2^shift + 1
                           /\ 2 * (m[2] % 2^shift) >= 2^shift

\* C28: converting one scalar Int32 element to a scalar Float destination
\* with n = 1 returns true for every i32 value v, and the destination then
\* holds the float nearest to v, the value the crate's test expects
\* (v as f32): 5 becomes 5.0.
C28_Int32ToFloatIsNearest ==
    (Converted /\ ma = Int32Scalar /\ mb = FloatScalar /\ ConvertedCount = 1
     /\ BothFit) =>
        /\ Returned
        /\ NearestF32(SubSeq(src_buf, 1, 4), SubSeq(dst_buf, 1, 4))
        /\ SubSeq(dst_buf, 1, 4) = test_convert_type_expected(SubSeq(src_buf, 1, 4))
        /\ SubSeq(src_buf, 1, 4) = << 5, 0, 0, 0 >>
               => SubSeq(dst_buf, 1, 4) = << 0, 0, 160, 64 >>

\* i32::MAX, which no float holds, has become 2^31
C28_Witness ==
    /\ Converted /\ ma = Int32Scalar /\ mb = FloatScalar /\ ConvertedCount = 1
    /\ src_buf = << 255, 255, 255, 127 >>
    /\ Returned
    /\ dst_buf = << 0, 0, 0, 79 >>

\* equal base kind, aggregate and array length; the hint is not looked at
SameButHint(a, b) ==
    /\ a.basetype = b.basetype
    /\ a.aggregate = b.aggregate
    /\ a.arraylen = b.arraylen

\* C24: when srctype and dsttype are equivalent, convert_type returns true
\* for every base kind, and the first n * elementsize bytes of the
\* destination are then byte for byte the source bytes.
C24_EquivalentIsByteCopy ==
    (Converted /\ SameButHint(ma, mb) /\ BothFit) =>
        /\ Returned
        /\ SubSeq(dst_buf, 1, ConvertedCount * ElementBytes(ma))
               = SubSeq(src_buf, 1, ConvertedCount * ElementBytes(ma))

\* two Vec2 of Float, hinted Color in the source and not in the destination
C24_Witness ==
    /\ Converted
    /\ ma = Desc("Float", "Vec2", "Color", 0)
    /\ mb = Desc("Float", "Vec2", "NoSemantics", 0)
    /\ ConvertedCount = 2
    /\ Len(src_buf) = 16
    /\ DstBefore = [ i \in 1..16 |-> 170 ]
    /\ Returned
    /\ dst_buf = src_buf

\* the text the k-th source element, a scalar String, points to
SourceText(k) == SampleTexts[src_buf[(k - 1) * platform.ptr + 1]]

Unsigned(s) == IF s # << >> /\ s[1] \in { "+", "-" } THEN SubSeq(s, 2, Len(s)) ELSE s

HowMany(s, chars) == Cardinality({ i \in 1..Len(s) : s[i] \in chars })

\* an optional sign, then decimal digits only, at least one
IsIntegerText(s) ==
    /\ Len(Unsigned(s)) >= 1
    /\ HowMany(Unsigned(s), Range(Digits)) = Len(Unsigned(s))

\* an optional sign, then digits with at most one point among them and at
\* least one digit, then nothing or an e or E followed by an integer
IsFloatText(s) ==
    \E cut \in 1..Len(Unsigned(s)) :
        LET mantissa == SubSeq(Unsigned(s), 1, cut)
            exponent == SubSeq(Unsigned(s), cut + 1, Len(Unsigned(s)))
        IN  /\ HowMany(mantissa, Range(Digits)) >= 1
            /\ HowMany(mantissa, { "." }) <= 1
            /\ HowMany(mantissa, Range(Digits) \cup { "." }) = Len(mantissa)
            /\ \/ exponent = << >>
               \/ exponent[1] \in { "e", "E" }
                  /\ IsIntegerText(SubSeq(exponent, 2, Len(exponent)))

\* C25: for non-equivalent types with source base String, a destination of
\* base Int32 or UInt32 returns true exactly when every one of the n source
\* strings parses in full as an integer literal, and a destination of base
\* Float exactly when every one parses in full as a float literal; a single
\* element that does not parse ("abc") makes the whole call false.
C25_StringSourceNeedsLiterals ==
    (Converted /\ ma.basetype = "String" /\ ma.aggregate = "Scalar" /\ BothFit) =>
        /\ mb.basetype \in { "Int32", "UInt32" } =>
              (Returned <=> \A k \in 1..ConvertedCount : IsIntegerText(SourceText(k)))
        /\ mb.basetype = "Float" =>
              (Returned <=> \A k \in 1..ConvertedCount : IsFloatText(SourceText(k)))

\* "abc" and "12" to two Int32: the call is false
C25_Witness ==
    /\ Converted
    /\ ma = Desc("String", "Scalar", "NoSemantics", 0)
    /\ mb = Desc("Int32", "Scalar", "NoSemantics", 0)
    /\ ConvertedCount = 2
    /\ BothFit
    /\ SourceText(1) = << "a", "b", "c" >>
    /\ SourceText(2) = << "1", "2" >>
    /\ ~Returned

ConvertibleInto == { "String", "Int32", "UInt32", "Float" }

C27_StringDestinationSucceeds ==
    (Converted /\ ~SameButHint(ma, mb) /\ mb.basetype = "String" /\ BothFit) =>
        Returned

\* i32::MIN to a String: the destination points to the text -2147483648
C27_Witness ==
    /\ Converted
    /\ ma = Int32Scalar
    /\ mb = Desc("String", "Scalar", "NoSemantics", 0)
    /\ ConvertedCount = 1
    /\ src_buf = << 0, 0, 0, 128 >>
    /\ Len(DstBefore) = platform.ptr
    /\ Returned
    /\ strings[dst_buf[1]] = << "-", "2", "1", "4", "7", "4", "8", "3", "6", "4", "8" >>

=============================================================================
